---- MODULE Spec2Model ----
(***************************************************************************)
(* Model of the technical-analysis engine of marktec                       *)
(* (src/technical_analysis.py).  The detectors are pure functions of a     *)
(* price frame df; each is an operator computed the way the code computes  *)
(* it (loop by loop, with Python's short-circuit and exception paths), and *)
(* each call is one action that stores the returned value.                 *)
(*                                                                         *)
(* A frame df is a record: n = len(df), cols = whether the OHLC columns    *)
(* exist, and the columns date/low/high/close as functions on 0..n-1 (the  *)
(* default RangeIndex, so label i is position i).  Prices are integers;    *)
(* date[i] is the day ordinal of bar i.  Python tuples are TLA+ tuples,    *)
(* Python lists are sequences.                                             *)
(***************************************************************************)
EXTENDS Integers, Sequences, FiniteSets, TLC

VARIABLES df, window, supports, resistances, waves, wave_types,
          abc_patterns, buy_signals, sell_signals, fib_levels, raised, pc,
          crypto_info, technical_indicators, fault, chart,
          refreshers, session_interval, now,
          max_attempts, attempt_count, delay, last_exception, calls, sleeps,
          outcome,
          infos, threshold, limit, gainers,
          current_tab, viewed_tab, search_input, search_results, ticker_index,
          pressed, displayed, succession, lookup

\* the frame, the window and the results of the detectors
detectorVars == <<df, window, supports, resistances, waves, wave_types,
                  abc_patterns, buy_signals, sell_signals, fib_levels, raised>>

\* the arguments and the result of create_chart
chartVars == <<crypto_info, technical_indicators, fault, chart>>

\* the DataRefresher objects of the app, its stored interval and the clock
refreshVars == <<refreshers, session_interval, now>>

\* the argument, the locals and the effects of one call of fetch_with_retry
retryVars == <<max_attempts, attempt_count, delay, last_exception, calls,
               sleeps, outcome>>

\* the lookups, the arguments and the result of a top-gainers function
gainerVars == <<infos, threshold, limit, gainers>>

\* st.session_state and the widgets of one browser session, with the record
\* of what was shown and looked up
sessionVars == <<current_tab, viewed_tab, search_input, search_results,
                 ticker_index, pressed, displayed, succession, lookup>>

\* the state of the data services and of the app session
serviceVars == <<retryVars, gainerVars, sessionVars>>

vars == <<detectorVars, pc, chartVars, refreshVars, serviceVars>>

----------------------------------------------------------------------------
(* Bounds of the checked input space *)

\* bars beyond 2*window in the longest frame drawn for a window
MaxOver == 3
\* largest non-default window argument drawn
MaxWindow == 2
\* largest max_attempts drawn
MaxAttempts == 3
\* tickers in the list of popular instruments, and largest limit drawn
MaxTickers == 3
MaxLimit == 3
\* tickers in POPULAR_CRYPTOS, and presses of Next counted in succession
MaxPopular == 3
MaxPresses == 3
\* deepest first dip below the flat low
MaxDepth == 2
\* flat level of the low column and of the high column
BaseLow == 5
BaseHigh == 8
\* longest close series and longest level list drawn for the signal detector
MaxCloses == 4
MaxLevels == 2
\* longest frame drawn with every combination of prices for the Fibonacci
\* calculator
MaxFibBars == 3
\* most DataRefresher objects constructed, longest refresh interval and
\* last tick of the clock
MaxRefreshers == 3
MaxInterval == 2
MaxClock == 3
\* steepest fall per day of the 30-bar trough frames, and the widest distance
\* of their high above their low
MaxSlope == 2
MaxSpread == 1

\* window=10 default of calculate_support_resistance
DefaultWindow == 10
\* the literal 5 of range(5, len(df) - 5) and range(1, 6)
SwingWindow == 5

----------------------------------------------------------------------------
(* Frames *)

Range(a, b) == a..(b - 1)

EmptyFrame ==
  [n |-> 0, cols |-> FALSE, date |-> <<>>, low |-> <<>>, high |-> <<>>, close |-> <<>>]

\* a well-formed frame of n bars built from its low, high and close columns
Frame(n, lo, hi, cl) ==
  [n |-> n, cols |-> TRUE,
   date |-> [i \in Range(0, n) |-> i],
   low |-> lo, high |-> hi, close |-> cl]

\* df[name][k]: KeyError when the column is missing or k is not a label
CanRead(d, k) == d.cols /\ k \in Range(0, d.n)

Column(d, name) ==
  CASE name = "low" -> d.low
    [] name = "high" -> d.high
    [] name = "close" -> d.close
    [] OTHER -> d.date

----------------------------------------------------------------------------
(* The sliding-window extremum test shared by the three detectors *)

\* the comparison made strict, so that ties no longer count as extrema
HoldsStrict(kind, a, b) == IF kind = "min" THEN a < b ELSE a > b

\* low[i] <= low[k] for kind "min", high[i] >= high[k] for kind "max"
Holds(kind, a, b) == IF kind = "min" THEN a <= b ELSE a >= b

\* all(col[i] <= col[i + dir*j] for j in range(j, w+1)) with Python's
\* short-circuit: "false" at the first failing j, "raise" when a read fails
\* before that, "true" when the generator is exhausted.
RECURSIVE AllHold(_, _, _, _, _, _, _)
AllHold(d, name, kind, i, dir, j, w) ==
  IF j > w THEN "true"
  ELSE IF ~CanRead(d, i) \/ ~CanRead(d, i + dir * j) THEN "raise"
  ELSE IF ~Holds(kind, Column(d, name)[i], Column(d, name)[i + dir * j]) THEN "false"
  ELSE AllHold(d, name, kind, i, dir, j + 1, w)

\* the test with the first all() only (the bars after i not compared)
IsExtremumBackOnly(d, name, kind, i, w) == AllHold(d, name, kind, i, -1, 1, w)

\* all(... i-j ...) and all(... i+j ...): the second all() is evaluated only
\* when the first is true
IsExtremum(d, name, kind, i, w) ==
  LET before == AllHold(d, name, kind, i, -1, 1, w)
  IN IF before # "true" THEN before ELSE AllHold(d, name, kind, i, 1, 1, w)

\* the loop bound off by one: range(window, len(df) - window + 1)
ScanRangeInclusive(n, w) == Range(w, n - w + 1)

\* the indices visited by  for i in range(window, len(df) - window)
ScanRange(n, w) == Range(w, n - w)

----------------------------------------------------------------------------
(* calculate_support_resistance *)

\* one of the two loops: appends (date[i], col[i]) for each extremum, in
\* the order of i; an exception aborts the loop
RECURSIVE LevelLoop(_, _, _, _, _, _)
LevelLoop(d, name, kind, i, w, acc) ==
  IF i \notin ScanRange(d.n, w) THEN [out |-> acc, raised |-> FALSE]
  ELSE LET t == IsExtremum(d, name, kind, i, w)
       IN IF t = "raise" THEN [out |-> <<>>, raised |-> TRUE]
          ELSE LevelLoop(d, name, kind, i + 1, w,
                         IF t = "true"
                         THEN Append(acc, <<d.date[i], Column(d, name)[i]>>)
                         ELSE acc)

\* the two scans with their columns exchanged
SupportResistanceSwapped(d, w) ==
  LET s == LevelLoop(d, "high", "min", w, w, <<>>)
      r == LevelLoop(d, "low", "max", w, w, <<>>)
  IN IF s.raised \/ r.raised
     THEN [supports |-> <<>>, resistances |-> <<>>, raised |-> TRUE]
     ELSE [supports |-> s.out, resistances |-> r.out, raised |-> FALSE]

calculate_support_resistance(d, w) ==
  LET s == LevelLoop(d, "low", "min", w, w, <<>>)
      r == LevelLoop(d, "high", "max", w, w, <<>>)
  IN IF s.raised \/ r.raised
     THEN [supports |-> <<>>, resistances |-> <<>>, raised |-> TRUE]
     ELSE [supports |-> s.out, resistances |-> r.out, raised |-> FALSE]

----------------------------------------------------------------------------
(* identify_elliot_waves and identify_abc_patterns *)

\* the extrema loop both functions contain: at each i the minimum test and
\* then the maximum test, each appending one entry
\* the swing loop with the two tests of one index in the other order (the
\* maximum appended before the minimum)
RECURSIVE SwingLoopMaxFirst(_, _, _, _)
SwingLoopMaxFirst(d, i, pts, kinds) ==
  IF i \notin ScanRange(d.n, SwingWindow)
  THEN [points |-> pts, kinds |-> kinds, raised |-> FALSE]
  ELSE LET tmin == IsExtremum(d, "low", "min", i, SwingWindow)
           tmax == IsExtremum(d, "high", "max", i, SwingWindow)
       IN IF tmin = "raise" \/ tmax = "raise"
          THEN [points |-> <<>>, kinds |-> <<>>, raised |-> TRUE]
          ELSE LET p1 == IF tmax = "true" THEN Append(pts, <<d.date[i], d.high[i]>>) ELSE pts
                   k1 == IF tmax = "true" THEN Append(kinds, "max") ELSE kinds
                   p2 == IF tmin = "true" THEN Append(p1, <<d.date[i], d.low[i]>>) ELSE p1
                   k2 == IF tmin = "true" THEN Append(k1, "min") ELSE k1
               IN SwingLoopMaxFirst(d, i + 1, p2, k2)

RECURSIVE SwingLoop(_, _, _, _)
SwingLoop(d, i, pts, kinds) ==
  IF i \notin ScanRange(d.n, SwingWindow)
  THEN [points |-> pts, kinds |-> kinds, raised |-> FALSE]
  ELSE LET tmin == IsExtremum(d, "low", "min", i, SwingWindow)
           tmax == IsExtremum(d, "high", "max", i, SwingWindow)
       IN IF tmin = "raise" \/ tmax = "raise"
          THEN [points |-> <<>>, kinds |-> <<>>, raised |-> TRUE]
          ELSE LET p1 == IF tmin = "true" THEN Append(pts, <<d.date[i], d.low[i]>>) ELSE pts
                   k1 == IF tmin = "true" THEN Append(kinds, "min") ELSE kinds
                   p2 == IF tmax = "true" THEN Append(p1, <<d.date[i], d.high[i]>>) ELSE p1
                   k2 == IF tmax = "true" THEN Append(k1, "max") ELSE k1
               IN SwingLoop(d, i + 1, p2, k2)

identify_elliot_waves(d) ==
  LET r == SwingLoop(d, SwingWindow, <<>>, <<>>)
  IN [waves |-> r.points, wave_types |-> r.kinds, raised |-> r.raised]

\* the triple scan without the test of the middle kind
RECURSIVE PatternLoopNoMiddle(_, _, _, _)
PatternLoopNoMiddle(pts, kinds, i, acc) ==
  IF i \notin Range(1, Len(kinds) - 1) THEN acc
  ELSE PatternLoopNoMiddle(pts, kinds, i + 1,
         IF kinds[i] = "max" /\ kinds[i + 2] = "max"
         THEN Append(acc, <<pts[i], pts[i + 1], pts[i + 2]>>)
         ELSE acc)

\* the triple scan resuming after the last point of a match (patterns that
\* share no point)
RECURSIVE PatternLoopNonOverlap(_, _, _, _)
PatternLoopNonOverlap(pts, kinds, i, acc) ==
  IF i \notin Range(1, Len(kinds) - 1) THEN acc
  ELSE IF kinds[i] = "max" /\ kinds[i + 1] = "min" /\ kinds[i + 2] = "max"
       THEN PatternLoopNonOverlap(pts, kinds, i + 3,
              Append(acc, <<pts[i], pts[i + 1], pts[i + 2]>>))
       ELSE PatternLoopNonOverlap(pts, kinds, i + 1, acc)

\* for i in range(len(extrema_types) - 2): append the triple when the kinds
\* are max, min, max
RECURSIVE PatternLoop(_, _, _, _)
PatternLoop(pts, kinds, i, acc) ==
  IF i \notin Range(1, Len(kinds) - 1) THEN acc
  ELSE PatternLoop(pts, kinds, i + 1,
         IF kinds[i] = "max" /\ kinds[i + 1] = "min" /\ kinds[i + 2] = "max"
         THEN Append(acc, <<pts[i], pts[i + 1], pts[i + 2]>>)
         ELSE acc)

\* the extrema loop with the price of a maximum read from the low column
RECURSIVE ExtremaLoopLowPrice(_, _, _, _, _)
ExtremaLoopLowPrice(d, i, dates, prices, types) ==
  IF i \notin ScanRange(d.n, SwingWindow)
  THEN [dates |-> dates, prices |-> prices, types |-> types, raised |-> FALSE]
  ELSE LET tmin == IsExtremum(d, "low", "min", i, SwingWindow)
           tmax == IsExtremum(d, "high", "max", i, SwingWindow)
       IN IF tmin = "raise" \/ tmax = "raise"
          THEN [dates |-> <<>>, prices |-> <<>>, types |-> <<>>, raised |-> TRUE]
          ELSE LET d1 == IF tmin = "true" THEN Append(dates, d.date[i]) ELSE dates
                   p1 == IF tmin = "true" THEN Append(prices, d.low[i]) ELSE prices
                   t1 == IF tmin = "true" THEN Append(types, "min") ELSE types
               IN ExtremaLoopLowPrice(d, i + 1,
                    IF tmax = "true" THEN Append(d1, d.date[i]) ELSE d1,
                    IF tmax = "true" THEN Append(p1, d.low[i]) ELSE p1,
                    IF tmax = "true" THEN Append(t1, "max") ELSE t1)

\* the loop of identify_abc_patterns over range(5, len(df) - 5), which keeps
\* the dates, the prices and the kinds of the extrema in three lists
RECURSIVE ExtremaLoop(_, _, _, _, _)
ExtremaLoop(d, i, dates, prices, types) ==
  IF i \notin ScanRange(d.n, SwingWindow)
  THEN [dates |-> dates, prices |-> prices, types |-> types, raised |-> FALSE]
  ELSE LET tmin == IsExtremum(d, "low", "min", i, SwingWindow)
           tmax == IsExtremum(d, "high", "max", i, SwingWindow)
       IN IF tmin = "raise" \/ tmax = "raise"
          THEN [dates |-> <<>>, prices |-> <<>>, types |-> <<>>, raised |-> TRUE]
          ELSE LET d1 == IF tmin = "true" THEN Append(dates, d.date[i]) ELSE dates
                   p1 == IF tmin = "true" THEN Append(prices, d.low[i]) ELSE prices
                   t1 == IF tmin = "true" THEN Append(types, "min") ELSE types
               IN ExtremaLoop(d, i + 1,
                    IF tmax = "true" THEN Append(d1, d.date[i]) ELSE d1,
                    IF tmax = "true" THEN Append(p1, d.high[i]) ELSE p1,
                    IF tmax = "true" THEN Append(t1, "max") ELSE t1)

\* (extrema_dates[k], extrema_prices[k]) for every k
ExtremaPoints(r) == [k \in 1..Len(r.types) |-> <<r.dates[k], r.prices[k]>>]

identify_abc_patterns(d) ==
  LET r == ExtremaLoop(d, SwingWindow, <<>>, <<>>, <<>>)
  IN IF r.raised THEN [abc_patterns |-> <<>>, raised |-> TRUE]
     ELSE [abc_patterns |-> PatternLoop(ExtremaPoints(r), r.types, 1, <<>>),
           raised |-> FALSE]

----------------------------------------------------------------------------
(* detect_signal_points *)

\* pd.to_datetime(date) of a level's date, which is already a timestamp
ToDatetime(date) == date

\* [(pd.to_datetime(date), price) for date, price in levels]
RECURSIVE LevelPrices(_, _, _)
LevelPrices(levels, k, acc) ==
  IF k > Len(levels) THEN acc
  ELSE LevelPrices(levels, k + 1, Append(acc, <<ToDatetime(levels[k][1]), levels[k][2]>>))

\* the early return taken only when both lists are empty
NoLevelsBoth(sp, rp) == sp = <<>> /\ rp = <<>>

\* if not support_prices or not resistance_prices
NoLevels(sp, rp) == sp = <<>> \/ rp = <<>>

\* the crossing test without its first conjunct
CrossesNoPrev(prev, curr, price) == curr >= price

\* the crossing test with the first comparison made inclusive
CrossesLoose(prev, curr, price) == prev <= price /\ curr >= price

\* previous_close < s_price and current_close >= s_price
Crosses(prev, curr, price) == prev < price /\ curr >= price

\* the level loop without its break
RECURSIVE CrossLoopNoBreak(_, _, _, _, _, _)
CrossLoopNoBreak(levels, k, prev, curr, ev, acc) ==
  IF k > Len(levels) THEN acc
  ELSE CrossLoopNoBreak(levels, k + 1, prev, curr, ev,
         IF Crosses(prev, curr, levels[k][2]) THEN Append(acc, ev) ELSE acc)

\* the level loop with the event dated by the level that was crossed
RECURSIVE CrossLoopLevelDate(_, _, _, _, _, _)
CrossLoopLevelDate(levels, k, prev, curr, ev, acc) ==
  IF k > Len(levels) THEN acc
  ELSE IF Crosses(prev, curr, levels[k][2]) THEN Append(acc, <<levels[k][1], ev[2]>>)
  ELSE CrossLoopLevelDate(levels, k + 1, prev, curr, ev, acc)

\* for s_date, s_price in levels: append the event at the first level that
\* is crossed, then break
RECURSIVE CrossLoop(_, _, _, _, _, _)
CrossLoop(levels, k, prev, curr, ev, acc) ==
  IF k > Len(levels) THEN acc
  ELSE IF Crosses(prev, curr, levels[k][2]) THEN Append(acc, ev)
  ELSE CrossLoop(levels, k + 1, prev, curr, ev, acc)

\* for i in range(1, len(df)): the support loop, then the resistance loop
RECURSIVE BarLoop(_, _, _, _, _, _)
BarLoop(d, sp, rp, i, buys, sells) ==
  IF i \notin Range(1, d.n) THEN [buy_signals |-> buys, sell_signals |-> sells, raised |-> FALSE]
  ELSE IF ~CanRead(d, i) \/ ~CanRead(d, i - 1)
  THEN [buy_signals |-> <<>>, sell_signals |-> <<>>, raised |-> TRUE]
  ELSE LET current_close == d.close[i]
           previous_close == d.close[i - 1]
           current_date == d.date[i]
           ev == <<current_date, current_close>>
       IN BarLoop(d, sp, rp, i + 1,
                  CrossLoop(sp, 1, previous_close, current_close, ev, buys),
                  CrossLoop(rp, 1, previous_close, current_close, ev, sells))

detect_signal_points(d, sup, res) ==
  LET support_prices == LevelPrices(sup, 1, <<>>)
      resistance_prices == LevelPrices(res, 1, <<>>)
  IN IF NoLevels(support_prices, resistance_prices)
     THEN [buy_signals |-> <<>>, sell_signals |-> <<>>, raised |-> FALSE]
     ELSE BarLoop(d, support_prices, resistance_prices, 1, <<>>, <<>>)

----------------------------------------------------------------------------
(* IEEE 754 binary64 arithmetic, as Python floats and float64 columns      *)
(* compute.  A natural number is its sequence of limbs (digits in base     *)
(* 2^15), least significant first and without leading zero limbs.  A float *)
(* is NaN or a signed m * 2^e with m odd (or zero), the canonical form of  *)
(* its value; every operation computes the exact result and rounds it to   *)
(* 53 significant bits, ties to even.  Overflow and subnormals are out of  *)
(* reach of the prices drawn and are not modelled.                         *)

LimbBase == 2^15

RECURSIVE NatLimbs(_)
NatLimbs(k) == IF k = 0 THEN <<>> ELSE <<k % LimbBase>> \o NatLimbs(k \div LimbBase)

RECURSIVE Trim(_)
Trim(a) ==
  IF a = <<>> THEN a
  ELSE IF a[Len(a)] = 0 THEN Trim(SubSeq(a, 1, Len(a) - 1)) ELSE a

Limb(a, i) == IF i \in 1..Len(a) THEN a[i] ELSE 0

\* a + b from limb i on, with carry c
RECURSIVE AddFrom(_, _, _, _)
AddFrom(a, b, i, c) ==
  IF i > Len(a) /\ i > Len(b) THEN (IF c = 0 THEN <<>> ELSE <<c>>)
  ELSE LET t == Limb(a, i) + Limb(b, i) + c
       IN <<t % LimbBase>> \o AddFrom(a, b, i + 1, t \div LimbBase)

AddLimbs(a, b) == AddFrom(a, b, 1, 0)

\* a - b from limb i on, with borrow c; a >= b is required
RECURSIVE SubFrom(_, _, _, _)
SubFrom(a, b, i, c) ==
  IF i > Len(a) THEN <<>>
  ELSE LET t == Limb(a, i) - Limb(b, i) - c
       IN <<t % LimbBase>> \o SubFrom(a, b, i + 1, IF t < 0 THEN 1 ELSE 0)

SubLimbs(a, b) == Trim(SubFrom(a, b, 1, 0))

\* a >= b, comparing from the most significant limb i down
RECURSIVE GeqFrom(_, _, _)
GeqFrom(a, b, i) ==
  IF i = 0 THEN TRUE
  ELSE IF Limb(a, i) # Limb(b, i) THEN Limb(a, i) > Limb(b, i)
  ELSE GeqFrom(a, b, i - 1)

GeqLimbs(a, b) == GeqFrom(a, b, IF Len(a) > Len(b) THEN Len(a) ELSE Len(b))

\* a * k for a single limb k, from limb i on, with carry c
RECURSIVE MulSmallFrom(_, _, _, _)
MulSmallFrom(a, k, i, c) ==
  IF i > Len(a) THEN (IF c = 0 THEN <<>> ELSE <<c>>)
  ELSE LET t == a[i] * k + c
       IN <<t % LimbBase>> \o MulSmallFrom(a, k, i + 1, t \div LimbBase)

MulSmall(a, k) == Trim(MulSmallFrom(a, k, 1, 0))

\* a * LimbBase^k
ShiftLimbs(a, k) == IF a = <<>> THEN a ELSE [i \in 1..k |-> 0] \o a

\* a * 2^s
ShiftLeft(a, s) == ShiftLimbs(MulSmall(a, 2^(s % 15)), s \div 15)

\* a * b, schoolbook over the limbs of b from limb i on
RECURSIVE MulFrom(_, _, _)
MulFrom(a, b, i) ==
  IF i > Len(b) THEN <<>>
  ELSE AddLimbs(ShiftLimbs(MulSmall(a, b[i]), i - 1), MulFrom(a, b, i + 1))

MulLimbs(a, b) == MulFrom(a, b, 1)

\* floor(a / den) and a mod den for a single-limb den: long division from
\* the most significant limb i down, rem the running remainder, acc the
\* quotient limbs
RECURSIVE DivFrom(_, _, _, _, _)
DivFrom(a, den, i, rem, acc) ==
  IF i = 0 THEN [quot |-> Trim(acc), rem |-> rem]
  ELSE LET t == rem * LimbBase + a[i]
       IN DivFrom(a, den, i - 1, t % den, <<t \div den>> \o acc)

DivSmall(a, den) == DivFrom(a, den, Len(a), 0, <<>>)

\* floor(a / 2^s), and whether a bit was shifted out
ShiftRight(a, s) ==
  LET k == IF s \div 15 < Len(a) THEN s \div 15 ELSE Len(a)
      d == DivSmall(SubSeq(a, k + 1, Len(a)), 2^(s % 15))
  IN [quot |-> d.quot,
      sticky |-> d.rem # 0 \/ \E i \in 1..k : a[i] # 0]

\* the number of significant bits of a
BitLength(a) ==
  IF a = <<>> THEN 0
  ELSE 15 * (Len(a) - 1) + CHOOSE s \in 1..15 : 2^(s - 1) <= a[Len(a)] /\ a[Len(a)] < 2^s

IsOdd(a) == a # <<>> /\ a[1] % 2 = 1

NaN == [nan |-> TRUE, neg |-> FALSE, m |-> <<>>, e |-> 0]

\* number of zero bits below the lowest one bit of a non-zero a
LowZeros(a) ==
  LET k == CHOOSE i \in 1..Len(a) : a[i] # 0 /\ \A j \in 1..(i - 1) : a[j] = 0
      s == CHOOSE i \in 0..14 : a[k] % 2^i = 0 /\ (a[k] \div 2^i) % 2 = 1
  IN 15 * (k - 1) + s

\* the canonical form of (-1)^neg * m * 2^e
Canon(neg, m, e) ==
  LET t == Trim(m)
  IN IF t = <<>> THEN [nan |-> FALSE, neg |-> FALSE, m |-> <<>>, e |-> 0]
     ELSE LET z == LowZeros(t)
          IN [nan |-> FALSE, neg |-> neg, m |-> ShiftRight(t, z).quot, e |-> e + z]

\* round a canonical value to 53 significant bits, ties to even
Round53(x) ==
  IF BitLength(x.m) <= 53 THEN x
  ELSE LET k == BitLength(x.m) - 53
           r == ShiftRight(x.m, k - 1)
           half == IsOdd(r.quot)
           keep == ShiftRight(r.quot, 1).quot
           up == half /\ (r.sticky \/ IsOdd(keep))
       IN Canon(x.neg, IF up THEN AddLimbs(keep, <<1>>) ELSE keep, x.e + k)

\* an integer price as a float
FromInt(k) == IF k < 0 THEN Canon(TRUE, NatLimbs(-k), 0) ELSE Canon(FALSE, NatLimbs(k), 0)

\* the float a decimal literal num/den denotes (correctly rounded): the
\* quotient of num * 2^75 by den, with a last bit set when the division
\* left a remainder
Dec(num, den) ==
  LET d == DivSmall(ShiftLeft(NatLimbs(num), 75), den)
  IN Round53(Canon(FALSE,
                   AddLimbs(MulSmall(d.quot, 2), IF d.rem = 0 THEN <<>> ELSE <<1>>),
                   -76))

FNeg(x) == IF x.nan \/ x.m = <<>> THEN x ELSE [x EXCEPT !.neg = ~x.neg]

\* x + y without rounding
ExactAdd(x, y) ==
  LET e == IF x.e < y.e THEN x.e ELSE y.e
      a == ShiftLeft(x.m, x.e - e)
      b == ShiftLeft(y.m, y.e - e)
  IN IF x.neg = y.neg THEN Canon(x.neg, AddLimbs(a, b), e)
     ELSE IF GeqLimbs(a, b) THEN Canon(x.neg, SubLimbs(a, b), e)
     ELSE Canon(y.neg, SubLimbs(b, a), e)

ExactMul(x, y) == Canon(x.neg # y.neg, MulLimbs(x.m, y.m), x.e + y.e)

FAdd(x, y) == IF x.nan \/ y.nan THEN NaN ELSE Round53(ExactAdd(x, y))
FSub(x, y) == FAdd(x, FNeg(y))
FMul(x, y) == IF x.nan \/ y.nan THEN NaN ELSE Round53(ExactMul(x, y))

\* x <= y; false when either is NaN
FLeq(x, y) == ~x.nan /\ ~y.nan /\ ~ExactAdd(y, FNeg(x)).neg

----------------------------------------------------------------------------
(* calculate_fibonacci_retracement *)

\* Series.min() and Series.max(): a fold over the column from position i
\* on, NaN for an empty column
RECURSIVE Fold(_, _, _, _, _)
Fold(col, n, i, kind, best) ==
  IF i \notin Range(0, n) THEN best
  ELSE Fold(col, n, i + 1, kind,
            IF (kind = "min" /\ col[i] < best) \/ (kind = "max" /\ col[i] > best)
            THEN col[i] ELSE best)

ColumnMin(col, n) == IF n = 0 THEN NaN ELSE FromInt(Fold(col, n, 1, "min", col[0]))
ColumnMax(col, n) == IF n = 0 THEN NaN ELSE FromInt(Fold(col, n, 1, "max", col[0]))

\* the keys of the levels dict
FibKeys == {"0.0", "0.236", "0.382", "0.5", "0.618", "0.786", "1.0"}

\* the ratios with the digits of 0.618 transposed
RatioMistyped(key) ==
  CASE key = "0.236" -> Dec(236, 1000)
    [] key = "0.382" -> Dec(382, 1000)
    [] key = "0.5" -> Dec(5, 10)
    [] key = "0.618" -> Dec(681, 1000)
    [] key = "0.786" -> Dec(786, 1000)

\* the float literal each intermediate key's level is computed with
Ratio(key) ==
  CASE key = "0.236" -> Dec(236, 1000)
    [] key = "0.382" -> Dec(382, 1000)
    [] key = "0.5" -> Dec(5, 10)
    [] key = "0.618" -> Dec(618, 1000)
    [] key = "0.786" -> Dec(786, 1000)

\* the level measured upwards from the high
LevelAbove(highest_price, ratio, price_diff) ==
  FAdd(highest_price, FMul(ratio, price_diff))

\* highest_price - ratio * price_diff
Level(highest_price, ratio, price_diff) ==
  FSub(highest_price, FMul(ratio, price_diff))

\* the lowest price taken from the high column
LowestOfHigh(d) == ColumnMin(d.high, d.n)

\* lowest_price = df['low'].min()
Lowest(d) == ColumnMin(d.low, d.n)

\* highest_price = df['high'].max()
Highest(d) == ColumnMax(d.high, d.n)

calculate_fibonacci_retracement(d) ==
  IF ~d.cols THEN [levels |-> <<>>, raised |-> TRUE]
  ELSE LET lowest_price == Lowest(d)
           highest_price == Highest(d)
           price_diff == FSub(highest_price, lowest_price)
       IN [levels |->
             [key \in FibKeys |->
                IF key = "0.0" THEN highest_price
                ELSE IF key = "1.0" THEN lowest_price
                ELSE Level(highest_price, Ratio(key), price_diff)],
           raised |-> FALSE]

----------------------------------------------------------------------------
(* Input frames of the scan specification: a flat low column with at most  *)
(* two dips and a flat high column with at most one peak, the peak only in *)
(* frames without a second dip.  Position n stands for "no dip" or "no     *)
(* peak".                                                                  *)

DipColumn(n, p1, d1, p2) ==
  [i \in Range(0, n) |->
     BaseLow - (IF i = p1 THEN d1 ELSE 0) - (IF i = p2 /\ p2 # p1 THEN 1 ELSE 0)]

PeakColumn(n, q) ==
  [i \in Range(0, n) |-> BaseHigh + (IF i = q THEN 1 ELSE 0)]

Windows == (1..MaxWindow) \cup {DefaultWindow}

\* The 30-bar trough frames: the low falls by slope per day from flanks of
\* 100 to 90 at day 15 and rises again; the high is 100 throughout, or
\* follows the low at a distance of spread up to the flanks of 100.
Least(a, b) == IF a <= b THEN a ELSE b

Dist(i, c) == IF i >= c THEN i - c ELSE c - i

TroughColumn(slope, spread) ==
  [i \in Range(0, 30) |-> Least(100, 90 + spread + slope * Dist(i, 15))]

FlatColumn(price) == [i \in Range(0, 30) |-> price]

TroughFrames ==
  UNION {{Frame(30, TroughColumn(slope, 0), high, TroughColumn(slope, 0)) :
            high \in {FlatColumn(100)}
                      \cup {TroughColumn(slope, spread) : spread \in 0..MaxSpread}} :
         slope \in 1..MaxSlope}

----------------------------------------------------------------------------
(* create_chart.  A figure is a record of its traces, shapes, annotations  *)
(* and title; a text is a sequence of string tokens.  A Python value of    *)
(* the metadata dict is a record tagged with its type; Absent marks a key  *)
(* that the dict does not hold.  df = None is the value NoneFrame.  A      *)
(* frame carries no open and volume values, so the candlestick is drawn    *)
(* from date and close and the volume bars from date.                      *)

NoneFrame == [none |-> TRUE, n |-> 0, cols |-> FALSE]

Absent == [type |-> "absent"]

PyNone == [type |-> "NoneType"]

PyStr(s) == [type |-> "str", s |-> s]

PyInt(v) == [type |-> "int", v |-> v]

\* dict.get(key, default)
DictGet(dct, key, default) ==
  IF dct[key].type = "absent" THEN default ELSE dct[key]

DigitChar == <<"0", "1", "2", "3", "4", "5", "6", "7", "8", "9">>

RECURSIVE Digits(_)
Digits(v) ==
  IF v < 10 THEN <<DigitChar[v + 1]>>
  ELSE Append(Digits(v \div 10), DigitChar[(v % 10) + 1])

\* the digits of v in groups of three separated by commas: format spec ",.0f"
RECURSIVE Grouped(_)
Grouped(v) ==
  IF v < 1000 THEN Digits(v)
  ELSE Grouped(v \div 1000)
       \o <<",", DigitChar[((v % 1000) \div 100) + 1],
            DigitChar[((v % 100) \div 10) + 1], DigitChar[(v % 10) + 1]>>

\* str(x), as an f-string field renders x
Str(x) ==
  CASE x.type = "NoneType" -> <<"None">>
    [] x.type = "str" -> <<x.s>>
    [] x.type = "int" -> Digits(x.v)

\* x and isinstance(x, (int, float)): a number other than zero
IsTruthyNumber(x) == x.type = "int" /\ x.v # 0

\* market_cap = f"${market_cap:,.0f}" when it is a non-zero number
MarketCapText(x) ==
  IF IsTruthyNumber(x) THEN <<"$">> \o Grouped(x.v) ELSE Str(x)

\* circulating_supply = f"{circulating_supply:,.0f} coins" likewise
SupplyText(x) ==
  IF IsTruthyNumber(x) THEN Grouped(x.v) \o <<" coins">> ELSE Str(x)

\* f"{crypto_name} ({ticker}) | Market Cap: {market_cap} | Supply: {circulating_supply}"
TitleText(name, ticker, cap, supply) ==
  name \o <<" (", ticker, ") | Market Cap: ">> \o cap \o <<" | Supply: ">> \o supply

\* lines 382-391
Title(info, ticker) ==
  TitleText(Str(DictGet(info, "name", PyStr(ticker))), ticker,
            MarketCapText(DictGet(info, "market_cap", PyStr("N/A"))),
            SupplyText(DictGet(info, "circulating_supply", PyStr("N/A"))))

\* make_subplots(...) before any trace is added
EmptyFigure == [traces |-> <<>>, shapes |-> <<>>, annotations |-> <<>>, title |-> <<>>]

\* go.Figure() with the one annotation of lines 405-411
ErrorFigure(exc) ==
  [traces |-> <<>>, shapes |-> <<>>,
   annotations |-> <<(<<"Error creating chart: ", exc>>)>>, title |-> <<>>]

Dates(d) == [k \in 1..d.n |-> d.date[k - 1]]

Closes(d) == [k \in 1..d.n |-> d.close[k - 1]]

Scatter(name, points) == [type |-> "Scatter", name |-> name, points |-> points]

\* lines 225-251: exc is the exception raised, "none" when the two base
\* traces were added
BaseTraces(d, flt) ==
  IF flt = "make_subplots" THEN [fig |-> EmptyFigure, exc |-> "PlotlyError"]
  ELSE IF "none" \in DOMAIN d THEN [fig |-> EmptyFigure, exc |-> "TypeError"]
  ELSE IF ~d.cols THEN [fig |-> EmptyFigure, exc |-> "KeyError"]
  ELSE IF flt = "candlestick" THEN [fig |-> EmptyFigure, exc |-> "PlotlyError"]
  ELSE LET price == [type |-> "Candlestick", name |-> <<"Price">>,
                     x |-> Dates(d), close |-> Closes(d)]
           volume == [type |-> "Bar", name |-> <<"Volume">>, x |-> Dates(d)]
       IN IF flt = "volume"
          THEN [fig |-> [EmptyFigure EXCEPT !.traces = <<price>>], exc |-> "PlotlyError"]
          ELSE [fig |-> [EmptyFigure EXCEPT !.traces = <<price, volume>>], exc |-> "none"]

\* the element of a one-element set: Value({e(x) : x \in {v}}) is e(v) with
\* v evaluated once
Value(S) == CHOOSE x \in S : TRUE

\* the add_shape calls of lines 259-275 for one list of levels
LevelShapes(levels, color, d) ==
  [k \in 1..Len(levels) |->
     [color |-> color, x0 |-> levels[k][1], y0 |-> levels[k][2],
      x1 |-> d.date[d.n - 1]]]

\* The stages of the indicator block work on a context c: the figure built
\* so far, the locals supports and resistances, and the exception raised
\* ("none" while there is none) with the stage that raised it.  A stage
\* raises when its first plotly call does (fault flt names the stage).
NoContext(f) ==
  [fig |-> f, exc |-> "none", stage |-> "none", supports |-> <<>>,
   resistances |-> <<>>]

Raise(c, stage, exc) == [c EXCEPT !.exc = exc, !.stage = stage]

\* lines 257-275
StageLevels(c, d, flt) ==
  Value({IF r.supports \o r.resistances # <<>> /\ flt = "levels"
         THEN Raise(c, "levels", "PlotlyError")
         ELSE [c EXCEPT !.fig.shapes = @ \o LevelShapes(r.supports, "green", d)
                                         \o LevelShapes(r.resistances, "red", d),
                        !.supports = r.supports,
                        !.resistances = r.resistances] :
         r \in {calculate_support_resistance(d, DefaultWindow)}})

\* the insertion order of the dict of lines 60-68
FibKeyOrder == <<"0.0", "0.236", "0.382", "0.5", "0.618", "0.786", "1.0">>

FibShapes(lv, keys, d) ==
  [k \in 1..Len(keys) |->
     [color |-> "purple", x0 |-> d.date[0], y0 |-> lv[keys[k]],
      x1 |-> d.date[d.n - 1]]]

FibNotes(keys) == [k \in 1..Len(keys) |-> <<"Fib ", keys[k]>>]

\* lines 278-293: df['date'].iloc[0] raises IndexError on a frame without rows
StageFib(c, d, flt) ==
  Value({LET keys == SelectSeq(FibKeyOrder, LAMBDA key : key \in DOMAIN lv)
         IN IF keys = <<>> THEN c
            ELSE IF d.n = 0 THEN Raise(c, "fib", "IndexError")
            ELSE IF flt = "fib" THEN Raise(c, "fib", "PlotlyError")
            ELSE [c EXCEPT !.fig.shapes = @ \o FibShapes(lv, keys, d),
                           !.fig.annotations = @ \o FibNotes(keys)] :
         lv \in {calculate_fibonacci_retracement(d).levels}})

\* lines 296-310
StageWaves(c, d, flt) ==
  Value({IF r.waves # <<>> /\ flt = "waves" THEN Raise(c, "waves", "PlotlyError")
         ELSE [c EXCEPT !.fig.traces =
                 @ \o [k \in 1..Len(r.waves) |->
                         Scatter(<<"Wave ">> \o Digits(k), <<r.waves[k]>>)]] :
         r \in {identify_elliot_waves(d)}})

\* lines 313-334
StageAbc(c, d, flt) ==
  Value({IF r.abc_patterns # <<>> /\ flt = "abc" THEN Raise(c, "abc", "PlotlyError")
         ELSE [c EXCEPT !.fig.traces =
                 @ \o [k \in 1..Len(r.abc_patterns) |->
                         Scatter(<<"ABC Pattern ">> \o Digits(k), r.abc_patterns[k])]] :
         r \in {identify_abc_patterns(d)}})

\* the traces of lines 340-377
SignalTraces(r) ==
  (IF r.buy_signals # <<>>
   THEN <<Scatter(<<"Buy Signal">>, r.buy_signals)>> ELSE <<>>)
  \o (IF r.sell_signals # <<>>
      THEN <<Scatter(<<"Sell Signal">>, r.sell_signals)>> ELSE <<>>)

\* lines 337-377
StageSignals(c, d, flt) ==
  Value({IF SignalTraces(r) # <<>> /\ flt = "signals"
         THEN Raise(c, "signals", "PlotlyError")
         ELSE [c EXCEPT !.fig.traces = @ \o SignalTraces(r)] :
         r \in {detect_signal_points(d, c.supports, c.resistances)}})

\* the stages in the order of lines 257-377
StageOrder == <<"levels", "fib", "waves", "abc", "signals">>

Stage(name, c, d, flt) ==
  CASE name = "levels" -> StageLevels(c, d, flt)
    [] name = "fib" -> StageFib(c, d, flt)
    [] name = "waves" -> StageWaves(c, d, flt)
    [] name = "abc" -> StageAbc(c, d, flt)
    [] name = "signals" -> StageSignals(c, d, flt)

\* the statements of the try block from stage k on, left at the first
\* exception
RECURSIVE RunStages(_, _, _, _)
RunStages(c, d, flt, k) ==
  IF k > Len(StageOrder) \/ c.exc # "none" THEN c
  ELSE Value({RunStages(next, d, flt, k + 1) :
              next \in {Stage(StageOrder[k], c, d, flt)}})

\* the inner handler missing: the exception leaves the indicator block
InnerExceptAbsent(f, stage, exc) == [fig |-> f, exc |-> exc, log |-> <<>>]

\* except Exception of lines 378-379: the error is logged, the figure built
\* so far is kept and create_chart goes on
InnerExcept(f, stage, exc) ==
  [fig |-> f, exc |-> "none",
   log |-> <<[message |-> "Error adding technical indicators", stage |-> stage,
             exc |-> exc]>>]

\* the try statement of lines 255-379
IndicatorBlock(f, d, flt) ==
  Value({IF c.exc # "none" THEN InnerExcept(c.fig, c.stage, c.exc)
         ELSE [fig |-> c.fig, exc |-> "none", log |-> <<>>] :
         c \in {RunStages(NoContext(f), d, flt, 1)}})

\* lines 382-399: crypto_info.get raises AttributeError unless crypto_info
\* is a dict
Layout(f, ticker, info, flt) ==
  IF ~info.dict THEN [fig |-> f, exc |-> "AttributeError"]
  ELSE IF flt = "update_layout" THEN [fig |-> f, exc |-> "PlotlyError"]
  ELSE [fig |-> [f EXCEPT !.title = Title(info, ticker)], exc |-> "none"]

\* the outer handler missing: the exception leaves create_chart
OuterExceptAbsent(exc, log) ==
  [fig |-> EmptyFigure, log |-> log, propagated |-> exc]

\* except Exception of lines 402-412
OuterExcept(exc, log) ==
  [fig |-> ErrorFigure(exc),
   log |-> Append(log, [message |-> "Error creating chart", stage |-> "chart",
                        exc |-> exc]),
   propagated |-> "none"]

\* lines 381-401, after an indicator block that left figure and log
AfterBlock(block, ticker, info, flt) ==
  IF block.exc # "none" THEN OuterExcept(block.exc, block.log)
  ELSE Value({IF lay.exc # "none" THEN OuterExcept(lay.exc, block.log)
              ELSE [fig |-> lay.fig, log |-> block.log, propagated |-> "none"] :
              lay \in {Layout(block.fig, ticker, info, flt)}})

\* lines 253-401, after the base traces
AfterBase(base, d, ticker, info, indicators, flt) ==
  IF base.exc # "none" THEN OuterExcept(base.exc, <<>>)
  ELSE Value({AfterBlock(block, ticker, info, flt) :
              block \in {IF indicators THEN IndicatorBlock(base.fig, d, flt)
                          ELSE [fig |-> base.fig, exc |-> "none", log |-> <<>>]}})

create_chart(d, ticker, info, indicators, flt) ==
  Value({AfterBase(base, d, ticker, info, indicators, flt) :
         base \in {BaseTraces(d, flt)}})

Ticker == "BTC-USD"

\* the plotly calls of create_chart, named by the step they belong to
PlotlyCalls ==
  {"make_subplots", "candlestick", "volume", "levels", "fib", "waves", "abc",
   "signals", "update_layout"}

MetadataDicts ==
  [dict : {TRUE},
   name : {Absent, PyNone, PyStr("Bitcoin")},
   market_cap : {Absent, PyNone, PyInt(0), PyInt(1234567)},
   circulating_supply : {Absent, PyNone, PyInt(19)}]

\* crypto_info = None
NoMetadata ==
  [dict |-> FALSE, name |-> Absent, market_cap |-> Absent,
   circulating_supply |-> Absent]

ChartFrames ==
  TroughFrames
  \cup {NoneFrame, EmptyFrame, Frame(0, <<>>, <<>>, <<>>),
        Frame(1, [i \in {0} |-> 90], [i \in {0} |-> 100], [i \in {0} |-> 90])}

NoChart == [fig |-> EmptyFigure, log |-> <<>>, propagated |-> "none"]

\* the state of the chart variables where create_chart is not called
NoChartCall ==
  /\ crypto_info = NoMetadata
  /\ technical_indicators = TRUE
  /\ fault = "none"
  /\ chart = NoChart

----------------------------------------------------------------------------
(* fetch_with_retry (src/currency_data.py).  An exception is a record of   *)
(* the call of func that raised it (id, which tells two exception objects  *)
(* apart), its type and its message as a sequence of phrases; `x in str(e)`*)
(* is the presence of the phrase.  Durations are counted in half seconds.  *)

\* initial_delay=1, in half seconds
InitialDelay == 2

\* random.uniform(0, 0.5), in half seconds
Jitters == {0, 1}

\* the values func can return
Values == {"quotes", "no quotes"}

\* the messages of the exceptions func can raise
Messages == {<<"HTTP Error", "429">>, <<"Too Many Requests">>, <<"timed out">>}

InStr(phrase, msg) == \E k \in 1..Len(msg) : msg[k] = phrase

NoException == [id |-> 0, type |-> "None", msg |-> <<>>]

\* the exception raised by the call number id of func
Raises(id, msg) == [id |-> id, type |-> "Exception", msg |-> msg]

\* RuntimeError("Function failed for unknown reason")
UnknownReason ==
  [id |-> 0, type |-> "RuntimeError", msg |-> <<"Function failed for unknown reason">>]

\* every exception retried
IsRateLimitAlways(e) == TRUE

\* "429" in str(e) or "Too Many Requests" in str(e)
IsRateLimit(e) == InStr("429", e.msg) \/ InStr("Too Many Requests", e.msg)

\* one attempt more than max_attempts
InRangeInclusive(i, n) == i <= n

\* attempt_count in range(max_attempts)
InRange(i, n) == i < n

NotCalled == [kind |-> "none"]

NoRetry ==
  /\ max_attempts = 0
  /\ attempt_count = 0
  /\ delay = 0
  /\ last_exception = NoException
  /\ calls = <<>>
  /\ sleeps = <<>>
  /\ outcome = NotCalled

----------------------------------------------------------------------------
(* get_top_gainers, get_futures_top_gainers and get_currency_top_gainers   *)
(* (the same code over POPULAR_CRYPTOS, POPULAR_FUTURES and                *)
(* POPULAR_CURRENCIES).  infos[t] is the dict get_*_info returns for the   *)
(* ticker number t of the list; changes are whole percents.                *)

\* the dict of lines 90-94, returned when the lookup raised: no
\* 'price_change_24h_pct' key
ErrorInfo == [price_change_24h_pct |-> Absent, price |-> Absent, error |-> TRUE]

\* the dict of lines 75-86: info.get('regularMarketChangePercent', None)
Info(change) == [price_change_24h_pct |-> change, price |-> PyInt(100), error |-> FALSE]

\* isinstance(price_change, (int, float))
IsNumber(x) == x.type = "int"

\* lines 114-134: for ticker in POPULAR_...: append the tickers whose change
\* passes the test of line 124
RECURSIVE GainerLoop(_, _, _, _)
GainerLoop(dicts, t, thr, acc) ==
  IF t > Len(dicts) THEN acc
  ELSE LET price_change == DictGet(dicts[t], "price_change_24h_pct", PyInt(0))
       IN GainerLoop(dicts, t + 1, thr,
            IF price_change # PyNone /\ IsNumber(price_change) /\ price_change.v > thr
            THEN Append(acc, [symbol |-> t,
                              price_change_pct |-> price_change.v,
                              current_price |-> DictGet(dicts[t], "price", PyInt(0))])
            ELSE acc)

\* the entry inserted behind the entries whose change is not smaller
InsertByChange(entry, sorted) ==
  LET before == Cardinality({k \in 1..Len(sorted) :
                              sorted[k].price_change_pct >= entry.price_change_pct})
  IN SubSeq(sorted, 1, before) \o <<entry>> \o SubSeq(sorted, before + 1, Len(sorted))

\* gainers.sort(key=lambda x: x['price_change_pct'], reverse=True), a stable
\* sort
RECURSIVE SortByChange(_, _, _)
SortByChange(list, k, sorted) ==
  IF k > Len(list) THEN sorted
  ELSE SortByChange(list, k + 1, InsertByChange(list[k], sorted))

\* list[:stop]
SliceTo(list, stop) ==
  LET last == IF stop < 0 THEN Len(list) + stop
              ELSE IF stop < Len(list) THEN stop ELSE Len(list)
  IN SubSeq(list, 1, last)

get_top_gainers(dicts, thr, lim) ==
  SliceTo(SortByChange(GainerLoop(dicts, 1, thr, <<>>), 1, <<>>), lim)

NoGainers ==
  /\ infos = <<>>
  /\ threshold = 0
  /\ limit = 0
  /\ gainers = <<>>

----------------------------------------------------------------------------
(* The session of the app (src/app.py): the tab, search and navigation     *)
(* state of the Cryptocurrencies tab; the Futures and Currencies tabs run  *)
(* the same code on their own keys.  Streamlit runs the script from top to *)
(* bottom on every interaction, the bodies of all three `with tab` blocks  *)
(* included; a click on a tab header changes only what the browser shows.  *)
(* Ticker number k is the k-th entry of POPULAR_CRYPTOS.                   *)

Tabs == <<"Cryptocurrencies", "Futures", "Currencies">>

POPULAR_CRYPTOS == [k \in 1..MaxPopular |-> k]

\* the text box is empty
NoQuery == [empty |-> TRUE, matches |-> 0]

\* a query text contained in the symbols of the first m tickers of the list
Query(m) == [empty |-> FALSE, matches |-> m]

\* search_crypto(query): the tickers of the list whose symbol holds the text
search_crypto(query) == SubSeq(POPULAR_CRYPTOS, 1, query.matches)

NoLookup == [len |-> 0, index |-> 0, raised |-> FALSE]

\* get_current_crypto_ticker(): the ticker, and the list length and the
\* index used when the search results were indexed
get_current_crypto_ticker(results, index, last) ==
  IF results # <<>>
  THEN IF index < Len(results)
       THEN [ticker |-> results[index + 1],
             lookup |-> [len |-> Len(results), index |-> index, raised |-> FALSE]]
       ELSE [ticker |-> 0,
             lookup |-> [len |-> Len(results), index |-> index, raised |-> TRUE]]
  ELSE [ticker |-> POPULAR_CRYPTOS[(index % Len(POPULAR_CRYPTOS)) + 1], lookup |-> last]

\* lines 256-259 and 264-267: (index + step) % len(list)
StepIndex(results, index, step) ==
  IF results # <<>> THEN (index + step) % Len(results)
  ELSE (index + step) % Len(POPULAR_CRYPTOS)

\* session state as lines 44-73 initialise it, before the first run
NewSession ==
  /\ current_tab = Tabs[1]
  /\ viewed_tab = Tabs[1]
  /\ search_input = NoQuery
  /\ search_results = <<>>
  /\ ticker_index = 0
  /\ pressed = "none"
  /\ displayed = 0
  /\ succession = 0
  /\ lookup = NoLookup

NoService == NoRetry /\ NoGainers /\ NewSession

----------------------------------------------------------------------------
(* DataRefresher (src/utils.py) as the app uses it (src/app.py).  Every    *)
(* run of the app script constructs a DataRefresher and starts it; each    *)
(* started refresher owns one daemon thread running _refresh_loop.  A      *)
(* refresher is a record of its fields and of the position of its thread:  *)
(* "test" (at the while condition), "sleep" (in time.sleep(1)), "callback" *)
(* (inside refresh_callback()) or "ended".  Time is counted in ticks of    *)
(* the clock now; intervals are whole ticks.                               *)

Intervals == 1..MaxInterval

\* DataRefresher(interval) followed by start(callback) at time t
Started(interval, t) ==
  [refresh_interval |-> interval, last_refresh_time |-> t, is_running |-> TRUE,
   thread |-> "test", current_time |-> t]

\* stop(): is_running = False, then join(timeout=1) returns whether or not
\* the thread has ended
Stopped(r) == [r EXCEPT !.is_running = FALSE]

NoRefresher ==
  /\ refreshers = <<>>
  /\ session_interval = MaxInterval
  /\ now = 0


----------------------------------------------------------------------------
(* Specification of the scan detectors: a frame and a window are drawn,    *)
(* then the three detectors are called in the order create_chart calls     *)
(* them.                                                                   *)

NoResults ==
  /\ supports = <<>>
  /\ resistances = <<>>
  /\ waves = <<>>
  /\ wave_types = <<>>
  /\ abc_patterns = <<>>
  /\ buy_signals = <<>>
  /\ sell_signals = <<>>
  /\ fib_levels = <<>>
  /\ raised = {}

Init ==
  /\ window \in Windows
  /\ \/ df = EmptyFrame
     \/ \E n \in 0..(2 * window + MaxOver) :
          \E p1 \in 0..n, d1 \in 1..MaxDepth, q \in 0..n :
            \E p2 \in p1..n :
              /\ p2 = n \/ q = n
              /\ df = Frame(n, DipColumn(n, p1, d1, p2), PeakColumn(n, q),
                            DipColumn(n, p1, d1, p2))
     \/ window = DefaultWindow /\ df \in TroughFrames
  /\ NoResults
  /\ NoChartCall
  /\ NoRefresher
  /\ NoService
  /\ pc = "start"

CallCalculateSupportResistance ==
  /\ pc = "start"
  /\ LET r == calculate_support_resistance(df, window)
     IN /\ supports' = r.supports
        /\ resistances' = r.resistances
        /\ raised' = IF r.raised THEN raised \cup {"calculate_support_resistance"} ELSE raised
  /\ pc' = "levels"
  /\ UNCHANGED <<df, window, waves, wave_types, abc_patterns, buy_signals,
                 sell_signals, fib_levels>>
  /\ UNCHANGED <<chartVars, refreshVars, serviceVars>>

CallIdentifyElliotWaves ==
  /\ pc = "levels"
  /\ LET r == identify_elliot_waves(df)
     IN /\ waves' = r.waves
        /\ wave_types' = r.wave_types
        /\ raised' = IF r.raised THEN raised \cup {"identify_elliot_waves"} ELSE raised
  /\ pc' = "waves"
  /\ UNCHANGED <<df, window, supports, resistances, abc_patterns, buy_signals,
                 sell_signals, fib_levels>>
  /\ UNCHANGED <<chartVars, refreshVars, serviceVars>>

CallIdentifyAbcPatterns ==
  /\ pc = "waves"
  /\ LET r == identify_abc_patterns(df)
     IN /\ abc_patterns' = r.abc_patterns
        /\ raised' = IF r.raised THEN raised \cup {"identify_abc_patterns"} ELSE raised
  /\ pc' = "abc"
  /\ UNCHANGED <<df, window, supports, resistances, waves, wave_types,
                 buy_signals, sell_signals, fib_levels>>
  /\ UNCHANGED <<chartVars, refreshVars, serviceVars>>

Next ==
  \/ CallCalculateSupportResistance
  \/ CallIdentifyElliotWaves
  \/ CallIdentifyAbcPatterns

Spec == Init /\ [][Next]_vars

----------------------------------------------------------------------------
(* Specification of the signal detector: a close series and two level      *)
(* lists are drawn, then detect_signal_points is called on them.           *)

\* close prices and level prices drawn
ClosePrices == 8..11
CrossPrices == 9..10

\* the sequences over S of length at most k
RECURSIVE SeqsUpTo(_, _)
SeqsUpTo(S, k) ==
  IF k = 0 THEN {<<>>}
  ELSE LET shorter == SeqsUpTo(S, k - 1)
       IN shorter \cup {Append(q, x) : q \in shorter, x \in S}

LevelLists == SeqsUpTo({<<0, p>> : p \in CrossPrices}, MaxLevels)

InitSignal ==
  /\ window = DefaultWindow
  /\ \E n \in 0..MaxCloses :
       \E cl \in [Range(0, n) -> ClosePrices] : df = Frame(n, cl, cl, cl)
  /\ supports \in LevelLists
  /\ resistances \in LevelLists
  /\ waves = <<>>
  /\ wave_types = <<>>
  /\ abc_patterns = <<>>
  /\ buy_signals = <<>>
  /\ sell_signals = <<>>
  /\ fib_levels = <<>>
  /\ raised = {}
  /\ NoChartCall
  /\ NoRefresher
  /\ NoService
  /\ pc = "given"

CallDetectSignalPoints ==
  /\ pc = "given"
  /\ LET r == detect_signal_points(df, supports, resistances)
     IN /\ buy_signals' = r.buy_signals
        /\ sell_signals' = r.sell_signals
        /\ raised' = IF r.raised THEN raised \cup {"detect_signal_points"} ELSE raised
  /\ pc' = "signals"
  /\ UNCHANGED <<df, window, supports, resistances, waves, wave_types,
                 abc_patterns, fib_levels>>
  /\ UNCHANGED <<chartVars, refreshVars, serviceVars>>

NextSignal == CallDetectSignalPoints

SpecSignal == InitSignal /\ [][NextSignal]_vars

----------------------------------------------------------------------------
(* Specification of the Fibonacci calculator: a frame is drawn (the frame  *)
(* without columns, a frame of 0..MaxFibBars bars with every combination   *)
(* of the prices below, or a 40-bar frame with constant low and constant   *)
(* high), then calculate_fibonacci_retracement is called on it.            *)

FibLows == {50, 51}
FibHighs == {49, 100, 103}

InitFib ==
  /\ window = DefaultWindow
  /\ \/ df = EmptyFrame
     \/ \E n \in 0..MaxFibBars :
          \E lo \in [Range(0, n) -> FibLows], hi \in [Range(0, n) -> FibHighs] :
            df = Frame(n, lo, hi, lo)
     \/ \E l \in FibLows, h \in FibHighs :
          df = Frame(40, [i \in Range(0, 40) |-> l], [i \in Range(0, 40) |-> h],
                     [i \in Range(0, 40) |-> l])
  /\ NoResults
  /\ NoChartCall
  /\ NoRefresher
  /\ NoService
  /\ pc = "given"

CallCalculateFibonacciRetracement ==
  /\ pc = "given"
  /\ LET r == calculate_fibonacci_retracement(df)
     IN /\ fib_levels' = r.levels
        /\ raised' = IF r.raised THEN raised \cup {"calculate_fibonacci_retracement"} ELSE raised
  /\ pc' = "fib"
  /\ UNCHANGED <<df, window, supports, resistances, waves, wave_types,
                 abc_patterns, buy_signals, sell_signals>>
  /\ UNCHANGED <<chartVars, refreshVars, serviceVars>>

NextFib == CallCalculateFibonacciRetracement

SpecFib == InitFib /\ [][NextFib]_vars

----------------------------------------------------------------------------
(* Specification of the chart composer: a series, a metadata argument, the *)
(* indicator switch and the plotly call that fails (if any) are drawn,     *)
(* then create_chart is called.                                            *)

InitChart ==
  /\ window = DefaultWindow
  /\ df \in ChartFrames
  /\ crypto_info \in MetadataDicts \cup {NoMetadata}
  /\ technical_indicators \in BOOLEAN
  /\ fault \in PlotlyCalls \cup {"none"}
  /\ chart = NoChart
  /\ NoResults
  /\ NoRefresher
  /\ NoService
  /\ pc = "given"

CallCreateChart ==
  /\ pc = "given"
  /\ chart' = create_chart(df, Ticker, crypto_info, technical_indicators, fault)
  /\ pc' = "chart"
  /\ UNCHANGED <<detectorVars, crypto_info, technical_indicators, fault,
                 refreshVars, serviceVars>>

NextChart == CallCreateChart

SpecChart == InitChart /\ [][NextChart]_vars

----------------------------------------------------------------------------
(* Specification of the refresher: script runs, the steps of the refresher *)
(* threads and the clock interleave.                                       *)

InitRefresh ==
  /\ refreshers = <<>>
  /\ session_interval \in Intervals
  /\ now = 0
  /\ window = DefaultWindow
  /\ df = EmptyFrame
  /\ NoResults
  /\ NoChartCall
  /\ NoService
  /\ pc = "app"

\* one run of the script in which the slider keeps its value: lines 161-162
\* of app.py, the branch of line 226 not taken
RunScript ==
  /\ pc = "app"
  /\ Len(refreshers) < MaxRefreshers
  /\ refreshers' = Append(refreshers, Started(session_interval, now))
  /\ UNCHANGED <<session_interval, now, detectorVars, pc, chartVars, serviceVars>>

\* the positions the thread started at line 162 can have reached when
\* line 228 calls stop(): before its first while test, or past it and asleep
PositionsAtStop == {"test", "sleep"}

\* one run of the script in which the slider was moved: lines 161-162, then
\* lines 226-230 stop the refresher just started and start another
RunScriptNewInterval ==
  /\ pc = "app"
  /\ Len(refreshers) + 2 <= MaxRefreshers
  /\ \E v \in Intervals \ {session_interval} :
       \E pos \in PositionsAtStop :
         /\ session_interval' = v
         /\ refreshers' = refreshers
              \o <<Stopped([Started(session_interval, now) EXCEPT !.thread = pos]),
                   Started(v, now)>>
  /\ UNCHANGED <<now, detectorVars, pc, chartVars, serviceVars>>

\* while self.is_running
TestRunning(k) ==
  /\ refreshers[k].thread = "test"
  /\ refreshers' = [refreshers EXCEPT
                      ![k].thread = IF refreshers[k].is_running THEN "sleep" ELSE "ended"]
  /\ UNCHANGED <<session_interval, now, detectorVars, pc, chartVars, serviceVars>>

\* time.sleep(1) returns; the callback is entered when the interval has
\* elapsed (lines 52-58)
Wake(k) ==
  /\ refreshers[k].thread = "sleep"
  /\ refreshers' = [refreshers EXCEPT
                      ![k].current_time = now,
                      ![k].thread = IF now - refreshers[k].last_refresh_time
                                        >= refreshers[k].refresh_interval
                                     THEN "callback" ELSE "test"]
  /\ UNCHANGED <<session_interval, now, detectorVars, pc, chartVars, serviceVars>>

\* refresh_callback() returns and line 59 stores the time, or it raises and
\* lines 61-62 log the error
CallbackEnds(k) ==
  /\ refreshers[k].thread = "callback"
  /\ \E failed \in BOOLEAN :
       refreshers' = [refreshers EXCEPT
                        ![k].thread = "test",
                        ![k].last_refresh_time =
                           IF failed THEN @ ELSE refreshers[k].current_time]
  /\ UNCHANGED <<session_interval, now, detectorVars, pc, chartVars, serviceVars>>

Tick ==
  /\ pc = "app"
  /\ now < MaxClock
  /\ now' = now + 1
  /\ UNCHANGED <<refreshers, session_interval, detectorVars, pc, chartVars,
                 serviceVars>>

NextRefresh ==
  \/ RunScript
  \/ RunScriptNewInterval
  \/ \E k \in 1..Len(refreshers) : TestRunning(k)
  \/ \E k \in 1..Len(refreshers) : Wake(k)
  \/ \E k \in 1..Len(refreshers) : CallbackEnds(k)
  \/ Tick

SpecRefresh == InitRefresh /\ [][NextRefresh]_vars

----------------------------------------------------------------------------
(* Specification of fetch_with_retry: max_attempts is drawn, and every     *)
(* call of func returns a value or raises an exception with one of the     *)
(* messages.  pc is the position in the function: "loop" (at the head of   *)
(* the for loop), "sleep" (in time.sleep), "after" (past the loop),        *)
(* "returned" or "raised".                                                 *)

InitRetry ==
  /\ max_attempts \in 0..MaxAttempts
  /\ attempt_count = 0
  /\ delay = InitialDelay
  /\ last_exception = NoException
  /\ calls = <<>>
  /\ sleeps = <<>>
  /\ outcome = NotCalled
  /\ NoGainers
  /\ NewSession
  /\ window = DefaultWindow
  /\ df = EmptyFrame
  /\ NoResults
  /\ NoChartCall
  /\ NoRefresher
  /\ pc = "loop"

\* line 33: func returns, and fetch_with_retry returns its value
FuncReturns ==
  /\ pc = "loop"
  /\ InRange(attempt_count, max_attempts)
  /\ \E v \in Values :
       /\ calls' = Append(calls, [ok |-> TRUE, value |-> v])
       /\ outcome' = [kind |-> "returned", value |-> v]
  /\ pc' = "returned"
  /\ UNCHANGED <<max_attempts, attempt_count, delay, last_exception, sleeps>>
  /\ UNCHANGED <<detectorVars, chartVars, refreshVars, gainerVars, sessionVars>>

\* lines 33-47: func raises; a rate-limit error leads to the sleep, any
\* other error to the break
FuncRaises ==
  /\ pc = "loop"
  /\ InRange(attempt_count, max_attempts)
  /\ \E msg \in Messages :
       \E e \in {Raises(Len(calls) + 1, msg)} :
         /\ calls' = Append(calls, [ok |-> FALSE, value |-> e])
         /\ last_exception' = e
         /\ pc' = IF IsRateLimit(e) THEN "sleep" ELSE "after"
  /\ UNCHANGED <<max_attempts, attempt_count, delay, sleeps, outcome>>
  /\ UNCHANGED <<detectorVars, chartVars, refreshVars, gainerVars, sessionVars>>

\* lines 39-44: time.sleep(delay + jitter) returns, the delay is doubled and
\* the loop takes its next value
Backoff ==
  /\ pc = "sleep"
  /\ \E jitter \in Jitters : sleeps' = Append(sleeps, delay + jitter)
  /\ delay' = delay * 2
  /\ attempt_count' = attempt_count + 1
  /\ pc' = "loop"
  /\ UNCHANGED <<max_attempts, last_exception, calls, outcome>>
  /\ UNCHANGED <<detectorVars, chartVars, refreshVars, gainerVars, sessionVars>>

\* the range is exhausted
LoopEnds ==
  /\ pc = "loop"
  /\ ~InRange(attempt_count, max_attempts)
  /\ pc' = "after"
  /\ UNCHANGED <<retryVars, detectorVars, chartVars, refreshVars, gainerVars,
                 sessionVars>>

\* lines 50-55: raise last_exception, or RuntimeError when there is none
RaiseAfterLoop ==
  /\ pc = "after"
  /\ outcome' = [kind |-> "raised",
                 value |-> IF last_exception # NoException
                           THEN last_exception ELSE UnknownReason]
  /\ pc' = "raised"
  /\ UNCHANGED <<max_attempts, attempt_count, delay, last_exception, calls, sleeps>>
  /\ UNCHANGED <<detectorVars, chartVars, refreshVars, gainerVars, sessionVars>>

NextRetry ==
  \/ FuncReturns
  \/ FuncRaises
  \/ Backoff
  \/ LoopEnds
  \/ RaiseAfterLoop

SpecRetry == InitRetry /\ [][NextRetry]_vars

----------------------------------------------------------------------------
(* Specification of the top-gainers functions: the dict of every ticker of *)
(* the list, a threshold and a limit are drawn, then the function is       *)
(* called.                                                                 *)

\* the values of 'price_change_24h_pct' in a dict of a lookup that succeeded
Changes == {PyNone, PyStr("N/A"), PyInt(-2), PyInt(0), PyInt(4), PyInt(5)}

Thresholds == {-1, 0, 3}

InitGainers ==
  /\ infos \in [1..MaxTickers -> {ErrorInfo} \cup {Info(c) : c \in Changes}]
  /\ threshold \in Thresholds
  /\ limit \in 0..MaxLimit
  /\ gainers = <<>>
  /\ NoRetry
  /\ NewSession
  /\ window = DefaultWindow
  /\ df = EmptyFrame
  /\ NoResults
  /\ NoChartCall
  /\ NoRefresher
  /\ pc = "given"

CallGetTopGainers ==
  /\ pc = "given"
  /\ gainers' = get_top_gainers(infos, threshold, limit)
  /\ pc' = "gainers"
  /\ UNCHANGED <<infos, threshold, limit>>
  /\ UNCHANGED <<detectorVars, chartVars, refreshVars, retryVars, sessionVars>>

NextGainers == CallGetTopGainers

SpecGainers == InitGainers /\ [][NextGainers]_vars

----------------------------------------------------------------------------
(* Specification of the session: the user types queries, presses the       *)
(* buttons and clicks tab headers between runs of the script; a run goes   *)
(* through the positions "top", "search", "reset", "buttons", "tab2" and   *)
(* "tab3" and ends at "idle"; the refresh thread calls refresh_data at any *)
(* of them.                                                                *)

InitSession ==
  /\ NewSession
  /\ NoRetry
  /\ NoGainers
  /\ window = DefaultWindow
  /\ df = EmptyFrame
  /\ NoResults
  /\ NoChartCall
  /\ NoRefresher
  /\ pc = "top"

\* a click on a tab header: no run of the script
ClickTab ==
  /\ pc = "idle"
  /\ \E t \in 1..Len(Tabs) : viewed_tab' = Tabs[t]
  /\ UNCHANGED <<current_tab, search_input, search_results, ticker_index,
                 pressed, displayed, succession, lookup, pc>>
  /\ UNCHANGED <<detectorVars, chartVars, refreshVars, retryVars, gainerVars>>

\* the text of the search box is changed, which starts a run
TypeQuery ==
  /\ pc = "idle"
  /\ \E q \in {NoQuery} \cup {Query(m) : m \in 0..MaxPopular} :
       q # search_input /\ search_input' = q
  /\ succession' = 0
  /\ pc' = "top"
  /\ UNCHANGED <<current_tab, viewed_tab, search_results, ticker_index,
                 pressed, displayed, lookup>>
  /\ UNCHANGED <<detectorVars, chartVars, refreshVars, retryVars, gainerVars>>

\* Next is pressed, which starts a run
PressNext ==
  /\ pc = "idle"
  /\ succession < MaxPresses
  /\ pressed' = "next"
  /\ succession' = IF succession >= 0 THEN succession + 1 ELSE succession
  /\ pc' = "top"
  /\ UNCHANGED <<current_tab, viewed_tab, search_input, search_results,
                 ticker_index, displayed, lookup>>
  /\ UNCHANGED <<detectorVars, chartVars, refreshVars, retryVars, gainerVars>>

\* Previous is pressed, which starts a run
PressPrevious ==
  /\ pc = "idle"
  /\ pressed' = "prev"
  /\ succession' = IF succession >= 1 THEN succession - 1 ELSE -1
  /\ pc' = "top"
  /\ UNCHANGED <<current_tab, viewed_tab, search_input, search_results,
                 ticker_index, displayed, lookup>>
  /\ UNCHANGED <<detectorVars, chartVars, refreshVars, retryVars, gainerVars>>

\* lines 44-236: the script up to the first statement of tab1
EnterTab1 ==
  /\ pc = "top"
  /\ current_tab' = Tabs[1]
  /\ pc' = "search"
  /\ UNCHANGED <<viewed_tab, search_input, search_results, ticker_index,
                 pressed, displayed, succession, lookup>>
  /\ UNCHANGED <<detectorVars, chartVars, refreshVars, retryVars, gainerVars>>

\* lines 244-248: the search results are replaced when the query has some
SearchReplace ==
  /\ pc = "search"
  /\ IF ~search_input.empty /\ search_crypto(search_input) # <<>>
     THEN search_results' = search_crypto(search_input) /\ pc' = "reset"
     ELSE UNCHANGED search_results /\ pc' = "buttons"
  /\ UNCHANGED <<current_tab, viewed_tab, search_input, ticker_index,
                 pressed, displayed, succession, lookup>>
  /\ UNCHANGED <<detectorVars, chartVars, refreshVars, retryVars, gainerVars>>

\* lines 249-250: the index is reset, then refresh_crypto_data()
SearchReset ==
  /\ pc = "reset"
  /\ ticker_index' = 0
  /\ lookup' = get_current_crypto_ticker(search_results, 0, lookup).lookup
  /\ pc' = "buttons"
  /\ UNCHANGED <<current_tab, viewed_tab, search_input, search_results,
                 pressed, displayed, succession>>
  /\ UNCHANGED <<detectorVars, chartVars, refreshVars, retryVars, gainerVars>>

\* lines 254-270: the button that started the run moves the index and
\* refreshes; then current_crypto = get_current_crypto_ticker()
Buttons ==
  /\ pc = "buttons"
  /\ \E i \in {IF pressed = "next" THEN StepIndex(search_results, ticker_index, 1)
               ELSE IF pressed = "prev" THEN StepIndex(search_results, ticker_index, -1)
               ELSE ticker_index} :
       \E r \in {get_current_crypto_ticker(search_results, i, lookup)} :
         /\ ticker_index' = i
         /\ displayed' = r.ticker
         /\ lookup' = r.lookup
  /\ pressed' = "none"
  /\ pc' = "tab2"
  /\ UNCHANGED <<current_tab, viewed_tab, search_input, search_results, succession>>
  /\ UNCHANGED <<detectorVars, chartVars, refreshVars, retryVars, gainerVars>>

\* line 360 and the body of tab2
EnterTab2 ==
  /\ pc = "tab2"
  /\ current_tab' = Tabs[2]
  /\ pc' = "tab3"
  /\ UNCHANGED <<viewed_tab, search_input, search_results, ticker_index,
                 pressed, displayed, succession, lookup>>
  /\ UNCHANGED <<detectorVars, chartVars, refreshVars, retryVars, gainerVars>>

\* line 477 and the body of tab3, which ends the run
EnterTab3 ==
  /\ pc = "tab3"
  /\ current_tab' = Tabs[3]
  /\ pc' = "idle"
  /\ UNCHANGED <<viewed_tab, search_input, search_results, ticker_index,
                 pressed, displayed, succession, lookup>>
  /\ UNCHANGED <<detectorVars, chartVars, refreshVars, retryVars, gainerVars>>

\* refresh_data() on the refresher thread, between two steps of the script:
\* refresh_crypto_data() when current_tab names the first tab; st.rerun()
\* may start a run when none is under way
TimerRefresh ==
  /\ lookup' = IF current_tab = Tabs[1]
               THEN get_current_crypto_ticker(search_results, ticker_index, lookup).lookup
               ELSE lookup
  /\ \E rerun \in BOOLEAN :
       IF rerun /\ pc = "idle"
       THEN pc' = "top" /\ succession' = -1
       ELSE UNCHANGED <<pc, succession>>
  /\ UNCHANGED <<current_tab, viewed_tab, search_input, search_results,
                 ticker_index, pressed, displayed>>
  /\ UNCHANGED <<detectorVars, chartVars, refreshVars, retryVars, gainerVars>>

NextSession ==
  \/ ClickTab
  \/ TypeQuery
  \/ PressNext
  \/ PressPrevious
  \/ EnterTab1
  \/ SearchReplace
  \/ SearchReset
  \/ Buttons
  \/ EnterTab2
  \/ EnterTab3
  \/ TimerRefresh

SpecSession == InitSession /\ [][NextSession]_vars

----------------------------------------------------------------------------
(* Properties of detect_signal_points (checked under SpecSignal) *)

\* the positions of the bar-to-bar steps
Steps == Range(1, df.n)

\* an event of the list carries the timestamp and the close of bar i
EventsAt(events, i) ==
  {k \in 1..Len(events) : events[k] = <<df.date[i], df.close[i]>>}

\* some level of the list has close[i-1] < price <= close[i]
CrossedAt(levels, i) ==
  {k \in 1..Len(levels) :
     df.close[i - 1] < levels[k][2] /\ levels[k][2] <= df.close[i]}

CrossingRule ==
  \A i \in Steps :
    /\ EventsAt(buy_signals, i) # {} <=> CrossedAt(supports, i) # {}
    /\ EventsAt(sell_signals, i) # {} <=> CrossedAt(resistances, i) # {}

\* C1 as stated: a buy event exists at position i exactly when some support
\* price s has close[i-1] < s <= close[i], and a sell event exactly when some
\* resistance price does, whatever the two level lists are.
C1_AsStated == pc = "signals" => CrossingRule

\* C1 as amended: when the support list and the resistance list are both
\* non-empty, a buy event exists at position i exactly when some support
\* price s has close[i-1] < s <= close[i], and a sell event exactly when some
\* resistance price does.
C1_CrossingIff ==
  (pc = "signals" /\ supports # <<>> /\ resistances # <<>>) => CrossingRule

C1_Witness ==
  /\ pc = "signals"
  /\ supports # <<>> /\ resistances # <<>>
  /\ \E i, j \in Steps :
       /\ EventsAt(buy_signals, i) # {} /\ EventsAt(sell_signals, i) = {}
       /\ EventsAt(buy_signals, j) = {} /\ df.close[j - 1] = supports[1][2]

\* C4: after detect_signal_points returns, an empty support list or an empty
\* resistance list means no buy event and no sell event, for any close series.
C4_EmptyListNoSignals ==
  (pc = "signals" /\ (supports = <<>> \/ resistances = <<>>))
    => (buy_signals = <<>> /\ sell_signals = <<>>)

C4_Witness ==
  /\ pc = "signals"
  /\ supports # <<>> /\ resistances = <<>>
  /\ \E i \in Steps : CrossedAt(supports, i) # {}
  /\ buy_signals = <<>> /\ sell_signals = <<>>

\* the frame and support list of the scenario: closes 8, 9, 11, 10 and one
\* support level at price 10
Scenario8_9_11_10 ==
  /\ df.n = 4
  /\ df.close = [i \in 0..3 |-> IF i = 0 THEN 8 ELSE IF i = 1 THEN 9
                                ELSE IF i = 2 THEN 11 ELSE 10]
  /\ Len(supports) = 1 /\ supports[1][2] = 10

ScenarioBuys ==
  /\ <<df.date[2], 11>> \in {buy_signals[k] : k \in 1..Len(buy_signals)}
  /\ EventsAt(buy_signals, 1) = {}
  /\ EventsAt(buy_signals, 3) = {}

\* C5 as stated: for closes [8, 9, 11, 10] and one support at 10 the call
\* returns a buy event at index 2 with price 11 and none at index 1 or 3.
C5_AsStated == (pc = "signals" /\ Scenario8_9_11_10) => ScenarioBuys

\* C5 as amended: for closes [8, 9, 11, 10], one support at 10 and at least
\* one resistance level, the call returns a buy event at index 2 with price
\* 11 and none at index 1 or 3.
C5_ScenarioBuy ==
  (pc = "signals" /\ Scenario8_9_11_10 /\ resistances # <<>>) => ScenarioBuys

C5_Witness ==
  /\ pc = "signals"
  /\ Scenario8_9_11_10
  /\ resistances # <<>>
  /\ buy_signals = << <<df.date[2], 11>> >>

\* C6: each position i carries at most one buy event and at most one sell
\* event, also when several levels of a list are crossed in the step to i.
C6_OneEventPerPosition ==
  pc = "signals" =>
    \A i \in Steps :
      /\ Cardinality(EventsAt(buy_signals, i)) <= 1
      /\ Cardinality(EventsAt(sell_signals, i)) <= 1

C6_Witness ==
  /\ pc = "signals"
  /\ \E i \in Steps :
       /\ Cardinality({supports[k][2] : k \in CrossedAt(supports, i)}) >= 2
       /\ Cardinality(CrossedAt(resistances, i)) >= 2
       /\ Cardinality(EventsAt(buy_signals, i)) = 1
       /\ Cardinality(EventsAt(sell_signals, i)) = 1

\* the prices of a level list
PriceSet(levels) == {levels[k][2] : k \in 1..Len(levels)}

\* timestamps given to the levels of a rewritten list
LevelDates == {0, 1}

\* the prices of S in ascending order, each once, all at the given date
RECURSIVE AscendingLevels(_, _)
AscendingLevels(S, date) ==
  IF S = {} THEN <<>>
  ELSE LET p == CHOOSE x \in S : \A y \in S : x <= y
       IN <<<<date, p>>>> \o AscendingLevels(S \ {p}, date)

\* the list in reverse order, followed by a copy of its first level at
\* another date
Scrambled(levels) ==
  [k \in 1..Len(levels) |-> levels[Len(levels) + 1 - k]]
    \o <<<<levels[1][1] + 1, levels[1][2]>>>>

\* the lists compared with a list: its distinct prices in ascending order at
\* each date, and the reordered list with a duplicate
Rewritings(levels) ==
  {AscendingLevels(PriceSet(levels), t) : t \in LevelDates} \cup {Scrambled(levels)}

----------------------------------------------------------------------------
(* Properties of calculate_fibonacci_retracement (checked under SpecFib) *)

Bars == Range(0, df.n)

MaxHigh == CHOOSE v \in {df.high[i] : i \in Bars} : \A i \in Bars : df.high[i] <= v
MinLow == CHOOSE v \in {df.low[i] : i \in Bars} : \A i \in Bars : v <= df.low[i]

\* the ratio keys in increasing order
KeyOrder == <<"0.0", "0.236", "0.382", "0.5", "0.618", "0.786", "1.0">>

\* C7: on a non-empty frame the returned mapping has exactly the seven ratio
\* keys, its level at 0.0 is max(high) and its level at 1.0 is min(low),
\* wherever in the series the two occur.
C7_KeysAndEndpoints ==
  (pc = "fib" /\ df.n > 0) =>
    /\ DOMAIN fib_levels = {KeyOrder[k] : k \in 1..7}
    /\ fib_levels["0.0"] = FromInt(MaxHigh)
    /\ fib_levels["1.0"] = FromInt(MinLow)

\* the highest high occurs in one bar only, the lowest low in one later bar
C7_Witness ==
  /\ pc = "fib"
  /\ \E i, j \in Bars :
       /\ i < j
       /\ \A k \in Bars \ {i} : df.high[k] < df.high[i]
       /\ \A k \in Bars \ {j} : df.low[k] > df.low[j]
       /\ df.low[j] < df.high[j]
  /\ fib_levels["0.0"] = FromInt(MaxHigh)
  /\ fib_levels["1.0"] = FromInt(MinLow)

\* C8: on a non-empty frame with max(high) >= min(low) the level prices do
\* not increase from one ratio key to the next larger one, and every level
\* lies between min(low) and max(high).
C8_LevelsNonIncreasing ==
  (pc = "fib" /\ df.n > 0 /\ MaxHigh >= MinLow) =>
    /\ \A k \in 1..6 : FLeq(fib_levels[KeyOrder[k + 1]], fib_levels[KeyOrder[k]])
    /\ \A k \in 1..7 :
         /\ FLeq(FromInt(MinLow), fib_levels[KeyOrder[k]])
         /\ FLeq(fib_levels[KeyOrder[k]], FromInt(MaxHigh))

C8_Witness ==
  /\ pc = "fib"
  /\ df.n > 0
  /\ MaxHigh > MinLow
  /\ \A k \in 1..6 : fib_levels[KeyOrder[k + 1]] # fib_levels[KeyOrder[k]]

\* the scenario frame: 40 bars, high constantly 100, low constantly 50
FlatScenario ==
  /\ df.n = 40
  /\ \A i \in Bars : df.high[i] = 100 /\ df.low[i] = 50

\* each intermediate level is the float highest - r * (highest - lowest)
LevelsFollowFormula ==
  \A k \in 2..6 :
    fib_levels[KeyOrder[k]] =
      FSub(FromInt(MaxHigh),
           FMul(Dec(<<0, 236, 382, 500, 618, 786>>[k], 1000),
                FSub(FromInt(MaxHigh), FromInt(MinLow))))

\* each intermediate level is within 2^-30 of the real number
\* highest - r * (highest - lowest): 1000 * level differs from
\* 1000 * highest - (1000 r) * (highest - lowest) by at most 1000 * 2^-30
LevelsNearExact ==
  \A k \in 2..6 :
    LET exact == 1000 * MaxHigh - <<0, 236, 382, 500, 618, 786>>[k] * (MaxHigh - MinLow)
        diff == ExactAdd(ExactMul(FromInt(1000), fib_levels[KeyOrder[k]]), FromInt(-exact))
    IN FLeq([diff EXCEPT !.neg = FALSE], Canon(FALSE, NatLimbs(1000), -30))

C10_EmptySeriesEmptyResult ==
  (pc = "fib" /\ df.n = 0) => DOMAIN fib_levels = {}

----------------------------------------------------------------------------
(* Properties of the windowed detectors (checked under Spec) *)

\* the indices of [w, n-w) whose value is <= (min) or >= (max) each of the
\* w values before and each of the w values after
ExtremumIndices(col, kind, w) ==
  {i \in Range(w, df.n - w) :
     \A j \in 1..w :
       IF kind = "min"
       THEN col[i] <= col[i - j] /\ col[i] <= col[i + j]
       ELSE col[i] >= col[i - j] /\ col[i] >= col[i + j]}

\* levels lists (date[i], col[i]) for exactly the indices of idx, in
\* increasing order of i, each index once
ListsExactly(levels, col, idx) ==
  /\ Len(levels) = Cardinality(idx)
  /\ \A k \in 1..Len(levels) :
       \E i \in idx :
         /\ levels[k] = <<df.date[i], col[i]>>
         /\ Cardinality({m \in idx : m < i}) = k - 1

\* C2: calculate_support_resistance(df, window=w) returns as supports the
\* pairs (date[i], low[i]) of exactly the local minima of low over [w, n-w),
\* inclusive comparison, in increasing order of i and one entry per index;
\* and as resistances the same for the local maxima of high.
C2_LevelsAreTheExtrema ==
  pc # "start" =>
    /\ ListsExactly(supports, df.low, ExtremumIndices(df.low, "min", window))
    /\ ListsExactly(resistances, df.high, ExtremumIndices(df.high, "max", window))

\* a plateau: two adjacent bars with the same low are both supports, and
\* some scanned bar is not a support
C2_Witness ==
  /\ pc = "levels"
  /\ window = DefaultWindow
  /\ \E k \in 1..(Len(supports) - 1) :
       /\ supports[k + 1][1] = supports[k][1] + 1
       /\ supports[k + 1][2] = supports[k][2]
       /\ supports[k][2] < BaseLow
  /\ Len(supports) < Cardinality(Range(window, df.n - window))
  /\ resistances # <<>>

\* C3: on a frame of at most 2w bars each windowed detector returns its empty
\* result, and returns it from the normal path (no exception is caught):
\* calculate_support_resistance for its window argument (the default 10
\* included), identify_elliot_waves and identify_abc_patterns for w = 5.
C3_ShortSeriesEmpty ==
  /\ (pc # "start" /\ df.n <= 2 * window)
       => /\ supports = <<>> /\ resistances = <<>>
          /\ "calculate_support_resistance" \notin raised
  /\ (pc \in {"waves", "abc"} /\ df.n <= 2 * SwingWindow)
       => /\ waves = <<>> /\ wave_types = <<>>
          /\ "identify_elliot_waves" \notin raised
  /\ (pc = "abc" /\ df.n <= 2 * SwingWindow)
       => /\ abc_patterns = <<>>
          /\ "identify_abc_patterns" \notin raised

C3_Witness ==
  /\ pc = "abc"
  /\ window = DefaultWindow
  /\ df.n = 2 * SwingWindow
  /\ \E i \in Range(0, df.n) : df.low[i] < BaseLow
  /\ supports = <<>> /\ waves = <<>> /\ abc_patterns = <<>>

\* The merged swing sequence, stated without the loop: the entries are the
\* local minima of low (mins) and the local maxima of high (maxs) over
\* [5, n-5), ordered by index, the minimum of an index before its maximum.
SwingMins == ExtremumIndices(df.low, "min", SwingWindow)

SwingMaxs == ExtremumIndices(df.high, "max", SwingWindow)

SwingEntries(mins, maxs) ==
  {<<i, "min">> : i \in mins} \cup {<<i, "max">> : i \in maxs}

SwingRank(e, mins, maxs) ==
  Cardinality({m \in mins : m < e[1]})
  + Cardinality({m \in maxs : m < e[1]})
  + (IF e[2] = "max" /\ e[1] \in mins THEN 1 ELSE 0) + 1

SwingPoint(e) ==
  <<df.date[e[1]], IF e[2] = "min" THEN df.low[e[1]] ELSE df.high[e[1]]>>

\* the entries as a sequence: position k holds the entry of rank k
MergedOf(mins, maxs) ==
  LET entries == SwingEntries(mins, maxs)
      ranked == {<<SwingRank(e, mins, maxs), e>> : e \in entries}
  IN [k \in 1..Cardinality(entries) |->
        (CHOOSE r \in ranked : r[1] = k)[2]]

MergedSwings == MergedOf(SwingMins, SwingMaxs)

\* C12: identify_elliot_waves returns the swing points in non-decreasing
\* index order, each tagged min (local minimum of low) or max (local maximum
\* of high); an index that is both appears as two adjacent entries, the min
\* first; waves and wave_types have the same length.
C12_WavesAreMergedSwings ==
  pc \in {"waves", "abc"} =>
    /\ Len(waves) = Len(wave_types)
    /\ LET ms == MergedSwings
       IN /\ Len(waves) = Len(ms)
          /\ \A k \in 1..Len(waves) :
               /\ waves[k] = SwingPoint(ms[k])
               /\ wave_types[k] = ms[k][2]
    /\ \A k \in 1..(Len(waves) - 1) : waves[k][1] <= waves[k + 1][1]
    /\ \A i \in SwingMins \cap SwingMaxs :
         \E k \in 1..(Len(waves) - 1) :
           /\ waves[k] = <<df.date[i], df.low[i]>> /\ wave_types[k] = "min"
           /\ waves[k + 1] = <<df.date[i], df.high[i]>> /\ wave_types[k + 1] = "max"

\* an index that is both a minimum and a maximum, next to one that is a
\* maximum only
C12_Witness ==
  /\ pc = "waves"
  /\ \E k \in 1..(Len(waves) - 2) :
       /\ wave_types[k] = "min" /\ wave_types[k + 1] = "max"
       /\ waves[k][1] = waves[k + 1][1]
       /\ wave_types[k + 2] = "max"
       /\ waves[k + 2][1] > waves[k + 1][1]

\* C11: every pattern returned by identify_abc_patterns is three consecutive
\* entries of the merged swing sequence whose kinds are max, min, max.
C11_PatternsAreMaxMinMax ==
  pc = "abc" =>
    LET ms == MergedSwings
    IN \A m \in 1..Len(abc_patterns) :
         \E k \in 1..(Len(ms) - 2) :
           /\ ms[k][2] = "max"
           /\ ms[k + 1][2] = "min"
           /\ ms[k + 2][2] = "max"
           /\ abc_patterns[m] = <<SwingPoint(ms[k]), SwingPoint(ms[k + 1]),
                                  SwingPoint(ms[k + 2])>>

\* a pattern is returned although three maxima follow each other elsewhere
\* in the swing sequence
C11_Witness ==
  /\ pc = "abc"
  /\ abc_patterns # <<>>
  /\ \E k \in 1..(Len(wave_types) - 2) :
       wave_types[k] = "max" /\ wave_types[k + 1] = "max" /\ wave_types[k + 2] = "max"

\* the positions of a swing sequence where max, min, max begins
PatternStarts(ms) ==
  {k \in 1..(Len(ms) - 2) :
     ms[k][2] = "max" /\ ms[k + 1][2] = "min" /\ ms[k + 2][2] = "max"}

\* C20: identify_abc_patterns returns exactly one pattern for every position
\* k whose kinds k..k+2 are max, min, max, in increasing order of k;
\* overlapping triples each give a pattern, and the number of patterns is the
\* number of such positions.
C20_OnePatternPerStart ==
  pc = "abc" =>
    LET ms == MergedSwings
        starts == PatternStarts(ms)
    IN /\ Len(abc_patterns) = Cardinality(starts)
       /\ \A k \in starts :
            abc_patterns[Cardinality({j \in starts : j < k}) + 1]
              = <<SwingPoint(ms[k]), SwingPoint(ms[k + 1]), SwingPoint(ms[k + 2])>>

\* two patterns that share a point: the last maximum of one is the first of
\* the next
C20_Witness ==
  /\ pc = "abc"
  /\ \E m \in 1..(Len(abc_patterns) - 1) :
       abc_patterns[m][3] = abc_patterns[m + 1][1]

\* a 30-bar frame whose low has its minimum 90 at day 15, falling to it and
\* rising from it, with highs of 100 at both ends
TroughScenario ==
  /\ df.cols /\ df.n = 30 /\ window = 10
  /\ df.low[15] = 90
  /\ \A i \in Range(0, 15) : df.low[i] >= df.low[i + 1] /\ df.low[i] > 90
  /\ \A i \in Range(16, 30) : df.low[i] >= df.low[i - 1] /\ df.low[i] > 90
  /\ df.high[0] = 100 /\ df.high[29] = 100

\* the highs of 100 fill days 0..5 and 25..29 and every high of the scanned
\* days 10..19 is below them
FlanksOutsideScan ==
  /\ \A i \in Range(0, 6) \cup Range(25, 30) : df.high[i] = 100
  /\ \A i \in Range(10, 20) : df.high[i] < 100

\* C19 as stated: for the 30-bar trough series, window 10 gives exactly one
\* support, at day 15 with price 90, and no resistance.
C19_AsStated ==
  (pc # "start" /\ TroughScenario) =>
    supports = <<(<<15, 90>>)>> /\ resistances = <<>>

\* C19: for the 30-bar trough series, window 10 gives exactly one support,
\* at day 15 with price 90; it gives no resistance when the highs of 100 lie
\* on days 0..5 and 25..29 and the highs of days 10..19 are below 100.
C19_TroughSupportOnly ==
  (pc # "start" /\ TroughScenario) =>
    /\ supports = <<(<<15, 90>>)>>
    /\ FlanksOutsideScan => resistances = <<>>

\* the trough frame whose high follows the low has been scanned
C19_Witness ==
  /\ pc = "levels" /\ TroughScenario /\ FlanksOutsideScan
  /\ df.high[15] = 90
  /\ Len(supports) = 1

\* C29: every pattern returned by identify_abc_patterns is made of points
\* of the waves list returned by identify_elliot_waves on the same series,
\* at consecutive positions whose wave_types are max, min, max; the extrema
\* lists of identify_abc_patterns are the waves and wave_types lists.
C29_PatternsFromWaves ==
  pc = "abc" =>
    /\ \A r \in {ExtremaLoop(df, SwingWindow, <<>>, <<>>, <<>>)} :
         ExtremaPoints(r) = waves /\ r.types = wave_types
    /\ \A m \in 1..Len(abc_patterns) :
         \E k \in 1..(Len(waves) - 2) :
           /\ abc_patterns[m] = <<waves[k], waves[k + 1], waves[k + 2]>>
           /\ wave_types[k] = "max"
           /\ wave_types[k + 1] = "min"
           /\ wave_types[k + 2] = "max"

\* a pattern was found among at least four swing points
C29_Witness ==
  /\ pc = "abc"
  /\ abc_patterns # <<>>
  /\ Len(waves) >= 4
  /\ \E k \in 1..Len(wave_types) : wave_types[k] = "min"

\* C30: every support returned with window 10 is a swing point of kind min
\* returned by identify_elliot_waves (window 5) on the same series, and
\* every resistance a swing point of kind max.
C30_LevelsAreSwings ==
  (pc \in {"waves", "abc"} /\ window = DefaultWindow) =>
    /\ \A k \in 1..Len(supports) :
         \E j \in 1..Len(waves) :
           waves[j] = supports[k] /\ wave_types[j] = "min"
    /\ \A k \in 1..Len(resistances) :
         \E j \in 1..Len(waves) :
           waves[j] = resistances[k] /\ wave_types[j] = "max"

\* a support and a resistance at window 10, and swing minima that are not
\* supports
C30_Witness ==
  /\ pc = "waves" /\ window = DefaultWindow
  /\ supports # <<>> /\ resistances # <<>>
  /\ Cardinality({j \in 1..Len(waves) : wave_types[j] = "min"}) > Len(supports)

----------------------------------------------------------------------------
(* Properties of create_chart (checked under SpecChart) *)

\* the candlestick trace and the volume trace are in the figure
HasBaseTraces(f) ==
  /\ Len(f.traces) >= 2
  /\ f.traces[1].type = "Candlestick" /\ f.traces[1].name = <<"Price">>
  /\ f.traces[2].type = "Bar" /\ f.traces[2].name = <<"Volume">>

Exceptions == {"TypeError", "KeyError", "IndexError", "AttributeError", "PlotlyError"}

IsPlaceholder(f) == \E e \in Exceptions : f = ErrorFigure(e)

OutsideCalls == {"make_subplots", "candlestick", "volume", "update_layout"}

Stages == {"levels", "fib", "waves", "abc", "signals"}

\* what a stage draws when it runs on its own
Drawn(stage, d) ==
  IF stage = "signals"
  THEN Value({StageSignals([NoContext(EmptyFigure) EXCEPT
                              !.supports = r.supports,
                              !.resistances = r.resistances], d, "none").fig :
              r \in {calculate_support_resistance(d, DefaultWindow)}})
  ELSE Stage(stage, NoContext(EmptyFigure), d, "none").fig

\* the first stage of the block that raises, "none" when the block completes
FailedStage(d, flt) == RunStages(NoContext(EmptyFigure), d, flt, 1).stage

\* create_chart is called on a series with its columns and a metadata dict,
\* the indicator block runs and one of its stages raises, and no call
\* outside the block fails
BlockFailure ==
  /\ pc = "chart"
  /\ df.cols
  /\ crypto_info.dict
  /\ technical_indicators
  /\ fault \notin OutsideCalls
  /\ FailedStage(df, fault) # "none"

\* C14: when a step of the indicator block fails (series with its columns,
\* metadata a dict), the returned figure still holds the candlestick and
\* volume traces and the layout step has run: the title is set.
C14_BlockFailureKeepsBase ==
  BlockFailure =>
    /\ HasBaseTraces(chart.fig)
    /\ chart.fig.title = Title(crypto_info, Ticker)

\* the plotly call of the ABC stage raised on a frame with a pattern
C14_Witness ==
  /\ BlockFailure
  /\ fault = "abc"
  /\ FailedStage(df, fault) = "abc"
  /\ chart.fig.title # <<>>

\* every shape, trace and annotation the stage draws is in the figure
Rendered(f, stage, d) ==
  \A g \in {Drawn(stage, d)} :
    /\ \A k \in 1..Len(g.shapes) :
         \E j \in 1..Len(f.shapes) :
           f.shapes[j].color = g.shapes[k].color /\ f.shapes[j] = g.shapes[k]
    /\ \A k \in 1..Len(g.traces) :
         \E j \in 1..Len(f.traces) :
           f.traces[j].name = g.traces[k].name /\ f.traces[j] = g.traces[k]
    /\ \A k \in 1..Len(g.annotations) :
         \E j \in 1..Len(f.annotations) : f.annotations[j] = g.annotations[k]

\* C15 as stated: when the overlay stage of one detector fails, the overlays
\* of every other detector are still rendered, and so is the base chart.
C15_AsStated ==
  BlockFailure =>
    /\ HasBaseTraces(chart.fig)
    /\ \A failed \in {FailedStage(df, fault)} :
         \A stage \in Stages \ {failed} : Rendered(chart.fig, stage, df)

\* the title of lines 382-391 with None shown as the default of the field
TitleNoneAsDefault(info, ticker) ==
  LET shown(key, default) ==
        IF info[key].type \in {"absent", "NoneType"} THEN default ELSE info[key]
  IN TitleText(Str(shown("name", PyStr(ticker))), ticker,
               MarketCapText(shown("market_cap", PyStr("N/A"))),
               SupplyText(shown("circulating_supply", PyStr("N/A"))))

\* C16 as stated: with None or a missing value in any of name, market_cap,
\* circulating_supply, create_chart returns no error placeholder and the
\* title shows the ticker for the name and 'N/A' for the numeric fields.
C16_AsStated ==
  (pc = "chart" /\ df.cols /\ crypto_info.dict /\ fault \notin OutsideCalls) =>
    /\ ~IsPlaceholder(chart.fig)
    /\ chart.fig.title = TitleNoneAsDefault(crypto_info, Ticker)

----------------------------------------------------------------------------
(* Properties of the refresher (checked under SpecRefresh) *)

InCallback == {k \in 1..Len(refreshers) : refreshers[k].thread = "callback"}

AliveThreads == {k \in 1..Len(refreshers) : refreshers[k].thread # "ended"}

\* C17 as stated: at most one invocation of the refresh callback is
\* executing and at most one refresher thread is alive at any time, over all
\* DataRefresher objects, script re-runs and interval changes included.
C17_AsStated ==
  Cardinality(InCallback) <= 1 /\ Cardinality(AliveThreads) <= 1

\* C25 as stated: once stop() has returned on a refresher, no invocation of
\* the refresh callback starts on it, wherever its thread was in the loop.
C25_AsStated ==
  [][\A k \in 1..Len(refreshers) :
       (~refreshers[k].is_running /\ refreshers[k].thread # "callback")
         => refreshers'[k].thread # "callback"]_vars

----------------------------------------------------------------------------
(* Properties of fetch_with_retry (checked under SpecRetry) *)

\* the calls of func that raised
FailedCalls == {k \in 1..Len(calls) : ~calls[k].ok}

\* C22: func is called at most max_attempts times; when fetch_with_retry
\* has returned, the value is the one returned by the last call of func,
\* every earlier call raised, and each sleep followed a call that raised
\* (no call and no sleep after the success).
C22_BoundedCallsFirstSuccess ==
  /\ Len(calls) <= max_attempts
  /\ Len(sleeps) <= Cardinality(FailedCalls)
  /\ pc = "returned" =>
       /\ calls # <<>>
       /\ calls[Len(calls)].ok
       /\ outcome = [kind |-> "returned", value |-> calls[Len(calls)].value]
       /\ FailedCalls = 1..(Len(calls) - 1)
       /\ Len(sleeps) = Len(calls) - 1

\* a value was returned by the last allowed attempt, after sleeps
C22_Witness ==
  /\ pc = "returned"
  /\ max_attempts = MaxAttempts
  /\ Len(calls) = max_attempts
  /\ Len(sleeps) = max_attempts - 1

\* the message holds one of the two rate-limit phrases
HasRateLimitPhrase(e) ==
  \E k \in 1..Len(e.msg) : e.msg[k] \in {"429", "Too Many Requests"}

\* C23: a call of func is followed by another only if it raised with a
\* rate-limit message; after an exception with another message no further
\* call is made and that exception is the one raised; a normal return
\* happens only when a call of func succeeded.
C23_RetriesOnlyRateLimit ==
  /\ \A k \in 1..(Len(calls) - 1) :
       ~calls[k].ok /\ HasRateLimitPhrase(calls[k].value)
  /\ \A k \in FailedCalls :
       ~HasRateLimitPhrase(calls[k].value) =>
         /\ k = Len(calls)
         /\ pc \in {"after", "raised"}
         /\ pc = "raised" => outcome = [kind |-> "raised", value |-> calls[k].value]
  /\ outcome.kind = "returned" => \E k \in 1..Len(calls) : calls[k].ok
  /\ pc \in {"returned", "raised"} <=> outcome # NotCalled

\* an error that is no rate-limit error was raised after a retry
C23_Witness ==
  /\ pc = "raised"
  /\ Len(calls) = 2
  /\ ~HasRateLimitPhrase(calls[2].value)
  /\ outcome.value = calls[2].value

----------------------------------------------------------------------------
(* Properties of the top-gainers functions (checked under SpecGainers) *)

\* C24 as stated: every entry returned is an instrument whose lookup
\* succeeded and whose change is a number above the threshold, the entries
\* are in descending order of change, and there are at most limit of them.
C24_AsStated ==
  pc = "gainers" =>
    /\ \A k \in 1..Len(gainers) :
         \E t \in 1..Len(infos) :
           /\ gainers[k].symbol = t
           /\ ~infos[t].error
           /\ infos[t].price_change_24h_pct.type = "int"
           /\ infos[t].price_change_24h_pct.v = gainers[k].price_change_pct
           /\ gainers[k].price_change_pct > threshold
    /\ \A k \in 1..(Len(gainers) - 1) :
         gainers[k].price_change_pct >= gainers[k + 1].price_change_pct
    /\ Len(gainers) <= limit

----------------------------------------------------------------------------
(* Properties of the session (checked under SpecSession) *)

\* C21 as stated: when a run of the script is complete, current_tab names
\* the tab the user is viewing.
C21_AsStated ==
  pc = "idle" => current_tab = viewed_tab

\* C26 as stated: whenever the search results are indexed, the index is
\* within 0..len(search_results)-1, the calls made by the refresh thread
\* between two statements of the script included.
C26_AsStated ==
  lookup.len > 0 => (lookup.index \in 0..(lookup.len - 1) /\ ~lookup.raised)

\* C27 as stated: while a query with results stays in the box, after k
\* presses of Next (less the presses of Previous) the ticker displayed is
\* the result at index k mod L.
C27_AsStated ==
  (pc = "idle" /\ succession >= 0 /\ ~search_input.empty
     /\ search_crypto(search_input) # <<>>) =>
    \A results \in {search_crypto(search_input)} :
      displayed = results[(succession % Len(results)) + 1]

====
